---- MODULE Spec2Model ----
(***************************************************************************)
(* Nagstamon backend adapters: the Checkmk Multisite (tabular) adapter of  *)
(* Nagstamon/Servers/Multisite.py and the Alertmanager (alert-list)        *)
(* adapter of Nagstamon/Servers/Alertmanager/__init__.py, as one state     *)
(* machine per backend instance: the fetch cycle (_get_status), its        *)
(* session handling (_get_url, _get_cookie_login, init_HTTP), the readers  *)
(* of the published mapping and the write actions.                         *)
(*                                                                         *)
(* GenericServer (Servers/Generic.py) and Objects.py are not part of the   *)
(* sources at hand: FetchURL, GetStatus, Error, check_for_error and the    *)
(* object defaults are modelled from the specification text.               *)
(***************************************************************************)
EXTENDS Integers, Sequences, FiniteSets, TLC

VARIABLES
    TYPE,                   \* class of the backend instance (TYPE attribute)
    CookieAuth,             \* MultisiteServer.CookieAuth
    refresh_authentication, \* GenericServer.refresh_authentication
    session,                \* "None" or "Session" (self.session)
    cookies,                \* names of the cookies in self.session.cookies
    isChecking,             \* the in-progress flag
    hosts,                  \* the published host mapping (self.hosts)
    new_hosts,              \* the mapping under construction (self.new_hosts)
    pc,                     \* position of each polling thread
    frame,                  \* locals of the running _get_status of each thread
    outcome,                \* how _get_status left: returned Result or raised
    trace,                  \* per cycle: requests sent and responses received
    observed,               \* what the last reader of self.hosts got
    published,              \* the mapping handed over by the last finished cycle
    ui,                     \* the operation of the user in progress
    writes,                 \* requests of the write path sent so far, in order
    transid_next,           \* next anti-CSRF token the backend will issue
    now                     \* the wall clock, in seconds (datetime.now)

vars == <<TYPE, CookieAuth, refresh_authentication, session, cookies, isChecking,
          hosts, new_hosts, pc, frame, outcome, trace, observed,
          published, ui, writes, transid_next, now>>

----------------------------------------------------------------------------
(* Bounds of the model *)

MaxRows == 1        \* data rows per table response
MaxAlerts == 2      \* alerts per alert-list response
MaxOps == 2         \* operations the user asks for per behaviour
MaxTargets == 1     \* "also acknowledge these services" targets
MaxInterleaved == 1 \* operations the user asks for while the polling runs
MaxTicks == 2       \* minutes the clock goes on per behaviour
MaxRepeated == 2    \* records per response where the records of one key repeat

----------------------------------------------------------------------------
(* Strings that the code takes apart are sequences of characters *)

RECURSIVE SplitAcc(_, _, _, _)
SplitAcc(s, sep, cur, acc) ==
    IF s = <<>> THEN Append(acc, cur)
    ELSE IF Head(s) = sep THEN SplitAcc(Tail(s), sep, <<>>, Append(acc, cur))
    ELSE SplitAcc(Tail(s), sep, Append(cur, Head(s)), acc)

\* str.split(sep)
Split(s, sep) == SplitAcc(s, sep, <<>>, <<>>)

\* response[1:]
Rest(s) == IF s = <<>> THEN <<>> ELSE Tail(s)

\* dict(list(zip(header, row))): a later duplicate column overwrites
Zip(header, row) ==
    LET n == IF Len(header) < Len(row) THEN Len(header) ELSE Len(row)
        last(k) == CHOOSE i \in 1..n :
                      /\ header[i] = k
                      /\ \A j \in 1..n : header[j] = k => j <= i
    IN [k \in {header[i] : i \in 1..n} |-> row[last(k)]]

----------------------------------------------------------------------------
(* Objects.py: Result, GenericHost, GenericService *)

Result(r, e, s) == [result |-> r, error |-> e, status_code |-> s]

\* a success Result: no error description, no error status code
IsSuccess(res) == res.error = "" /\ res.status_code < 400

GenericHost ==
    [name |-> "", server |-> "", status |-> "", last_check |-> "", duration |-> "",
     attempt |-> <<>>, status_information |-> "", site |-> "", address |-> "",
     scheduled_downtime |-> FALSE, acknowledged |-> FALSE,
     notifications_disabled |-> FALSE, status_type |-> "",
     services |-> [x \in {} |-> x]]

GenericService ==
    [host |-> "", name |-> "", server |-> "", status |-> "", last_check |-> "",
     duration |-> "", attempt |-> <<>>, status_information |-> "", site |-> "",
     address |-> "", command |-> "", passiveonly |-> FALSE, flapping |-> FALSE,
     scheduled_downtime |-> FALSE, acknowledged |-> FALSE,
     notifications_disabled |-> FALSE, status_type |-> ""]

\* an empty dict
EmptyMap == [x \in {} |-> x]

\* d[k] = v on a dict
Put(d, k, v) == [x \in DOMAIN d \cup {k} |-> IF x = k THEN v ELSE d[x]]

----------------------------------------------------------------------------
(* What the backends can answer *)

HostHeader ==
    <<"host", "host_state", "host_check_age", "host_state_age", "host_plugin_output",
      "host_attempt", "sitename_plain", "host_address", "host_in_downtime",
      "host_acknowledged", "host_notifications_enabled">>

\* a header of an older backend version: no host_attempt column
HostHeaderShort == <<"host", "host_state">>

HostRowSamples ==
    << <<"h1", "DOWN", "5 s", "2 m", "ping &amp; loss", <<"1", "/", "3">>,
        "siteA", "10.0.0.1", "no", "no", "yes">>,
      <<"h2", "UNREACH", "9 s", "3 h", "no route", <<"3", "/", "3">>,
        "siteB", "10.0.0.2", "yes", "yes", "no">>,
      <<"h1", "UP", "1 s", "7 m", "ok", <<"3">>,
        "siteA", "10.0.0.9", "no", "no", "yes">> >>

ServiceHeader ==
    <<"host", "service_description", "service_state", "svc_check_age", "svc_state_age",
      "svc_attempt", "svc_plugin_output", "svc_is_active", "svc_check_command",
      "svc_flapping", "sitename_plain", "host_address", "svc_in_downtime",
      "svc_acknowledged", "svc_notifications_enabled">>

ServiceHeaderShort == <<"host", "service_description">>

ServiceRowSamples ==
    << <<"h1", "disk", "CRIT", "4 s", "6 m", <<"1", "/", "3">>, " full&lt;90 ",
        "yes", "check_mk-df", "no", "siteA", "10.0.0.1", "no", "no", "yes">>,
      <<"h3", "load", "WARN", "8 s", "2 h", <<"0", "3", "/", "3">>, "high",
        "no", "check_load", "yes", "siteC", "10.0.0.3", "yes", "yes", "no">>,
      <<"h1", "disk", "WARN", "1 s", "1 m", <<"1", "/", "2", "/", "3">>, "later",
        "no", "check_mk-df", "no", "siteA", "10.0.0.1", "no", "no", "yes">> >>

\* the sub-sequences of at most n elements of sequence q, the order of q kept
RECURSIVE SubSeqs(_, _)
SubSeqs(q, n) ==
    IF q = <<>> \/ n = 0 THEN {<<>>}
    ELSE SubSeqs(Tail(q), n) \cup {<<Head(q)>> \o r : r \in SubSeqs(Tail(q), n - 1)}

\* a table response as Python sees it after eval: [header, row, row, ...]
HostTables ==
    {<<HostHeader>> \o rows : rows \in SubSeqs(HostRowSamples, MaxRows)}
        \cup {<<HostHeaderShort, <<"h1", "DOWN">>>>}

ServiceTables ==
    {<<ServiceHeader>> \o rows : rows \in SubSeqs(ServiceRowSamples, MaxRows)}
        \cup {<<ServiceHeaderShort, <<"h1", "disk">>>>}

\* a response body: its first line decides its shape
\*   literal: a Python literal of a table      html: "<html>..."
\*   warning: "WARNING: ..." then a literal    error: "ERROR: ..."
\*   garbage: anything else that is no literal
Body(shape, line, table) == [shape |-> shape, line |-> line, table |-> table]

Bodies(tables) ==
    {Body("literal", "", tb) : tb \in tables}
        \cup {Body("warning", "WARNING: limit", tb) : tb \in tables}
        \cup {Body("html", "<html>", <<>>), Body("error", "ERROR: view", <<>>),
              Body("garbage", "oops", <<>>)}

\* content.startswith(prefix)
StartsWith(body, prefix) ==
    CASE prefix = "<"        -> body.shape = "html"
      [] prefix = "WARNING:" -> body.shape = "warning"
      [] prefix = "ERROR:"   -> body.shape = "error"
      [] OTHER               -> FALSE

\* what FetchURL can do: raise (exc), or return body, status code, transport error
Response(exc, error, status, body) ==
    [exc |-> exc, error |-> error, status_code |-> status, body |-> body]

Responses(tables) ==
    {Response(TRUE, "", 0, Body("garbage", "", <<>>)),
     Response(FALSE, "timed out", 0, Body("garbage", "", <<>>)),
     Response(FALSE, "", 500, Body("html", "<html>", <<>>))}
        \cup {Response(FALSE, "", 200, b) : b \in Bodies(tables)}

HostResponses == Responses(HostTables)

ServiceResponses == Responses(ServiceTables)

----------------------------------------------------------------------------
(* Locals of a running cycle, and what is recorded about it *)

EmptyBody == Body("empty", "", <<>>)

\* url_params of _get_status after lines 218-227, force_authuser off
BaseParams ==
    {"is_host_acknowledged=-1", "is_service_acknowledged=-1",
     "is_host_notifications_enabled=-1", "is_service_notifications_enabled=-1",
     "is_host_active_checks_enabled=-1", "is_service_active_checks_enabled=-1",
     "host_scheduled_downtime_depth=-1", "is_in_downtime=-1"}

\* '&hst0=On&hst1=On'
FilterParams == {"hst0=On", "hst1=On"}

\* conf_filter: what conf.filter_services_on_unreachable_hosts was when the cycle read it
NoFrame == [which |-> "", header |-> <<>>, rows |-> <<>>, ret |-> Result(EmptyBody, "", 0),
            exc |-> "", url_params |-> BaseParams, conf_filter |-> FALSE]

NoOutcome == [kind |-> "none", result |-> Result(EmptyBody, "", 0)]

\* events: the requests of the cycle with what came back, in order
\* expect: the keys of the well-formed records in the bodies that were fetched
\* bad:    a body that was fetched holds a record that is not well-formed
\* raised: the exceptions raised inside _get_status, in order
\* skipped: the fingerprints of the alerts _process_alert returned False for
\* attempts: the keys of the rows in the bodies that were fetched whose attempt is
\*         not "a/b"
NoTrace ==
    [events |-> <<>>, expect |-> {}, bad |-> FALSE, raised |-> <<>>, skipped |-> {},
     attempts |-> {}]

Event(op, url, r) ==
    [op |-> op, url |-> url, exc |-> r.exc, error |-> r.error,
     status_code |-> r.status_code, shape |-> r.body.shape, params |-> {}]

HostColumns ==
    {"host", "host_state", "host_check_age", "host_state_age", "host_plugin_output",
     "host_attempt", "sitename_plain", "host_address"}

ServiceColumns ==
    {"host", "service_description", "service_state", "svc_check_age", "svc_state_age",
     "svc_attempt", "svc_plugin_output", "svc_is_active", "svc_check_command",
     "svc_flapping", "sitename_plain", "host_address"}

\* the rows of a table whose columns are complete and whose attempt is "a/b"
WellFormed(which, table) ==
    IF table = <<>> \/ which \notin {"hosts", "services"} THEN {}
    ELSE {i \in 2..Len(table) :
            LET x == Zip(table[1], table[i]) IN
            IF which = "hosts"
            THEN HostColumns \subseteq DOMAIN x /\ Len(Split(x["host_attempt"], "/")) = 2
            ELSE ServiceColumns \subseteq DOMAIN x /\ Len(Split(x["svc_attempt"], "/")) = 2}

\* the keys under which a complete mapping holds the well-formed rows of a table
TableKeys(which, table) ==
    {IF which = "hosts" THEN <<"host", Zip(table[1], table[i])["host"]>>
     ELSE <<"service", Zip(table[1], table[i])["host"],
            Zip(table[1], table[i])["service_description"]>> : i \in WellFormed(which, table)}

\* the keys of the rows of a table whose columns are complete and whose attempt is
\* not "a/b"
AttemptKeys(which, table) ==
    IF table = <<>> \/ which \notin {"hosts", "services"} THEN {}
    ELSE LET x(i) == Zip(table[1], table[i])
             odd == {i \in 2..Len(table) :
                       IF which = "hosts"
                       THEN /\ HostColumns \subseteq DOMAIN x(i)
                            /\ Len(Split(x(i)["host_attempt"], "/")) # 2
                       ELSE /\ ServiceColumns \subseteq DOMAIN x(i)
                            /\ Len(Split(x(i)["svc_attempt"], "/")) # 2}
         IN {IF which = "hosts" THEN <<"host", x(i)["host"]>>
             ELSE <<"service", x(i)["host"], x(i)["service_description"]>> : i \in odd}

\* a response that arrived whole: no transport error, no HTTP error status
Arrived(r) == ~r.exc /\ r.error = "" /\ r.status_code < 400

Logged(tr, op, url, r) ==
    [tr EXCEPT !.events = Append(@, Event(op, url, r)),
               !.expect = IF Arrived(r) /\ r.body.shape \in {"literal", "warning"}
                          THEN @ \cup TableKeys(url, r.body.table) ELSE @,
               !.bad = IF Arrived(r) /\ r.body.shape \in {"literal", "warning"}
                          /\ url \in {"hosts", "services"}
                       THEN @ \/ Cardinality(WellFormed(url, r.body.table))
                                    # Len(Rest(r.body.table))
                       ELSE @,
               !.attempts = IF Arrived(r) /\ r.body.shape \in {"literal", "warning"}
                            THEN @ \cup AttemptKeys(url, r.body.table) ELSE @]

\* the request recorded last was sent with these parameters in its URL
Sent(tr, params) == [tr EXCEPT !.events = [@ EXCEPT ![Len(@)].params = params]]

sessVars == <<CookieAuth, refresh_authentication, session, cookies>>
uiVars == <<ui, writes, transid_next, now>>

----------------------------------------------------------------------------
(* Leaving a step of _get_status *)

\* the try blocks of the two _get_status: what their except clause catches
\* as if line 289 read "except MultisiteError:"
CatchesHosts_onlyMultisiteError(exc) == exc = "MultisiteError"
CatchesHosts(exc) == TRUE

CatchesServices(exc) == TRUE

CatchesAlerts(exc) == exc # "BaseException"

Catches(block, exc) ==
    CASE block = "hosts"    -> CatchesHosts(exc)
      [] block = "services" -> CatchesServices(exc)
      [] block = "alerts"   -> CatchesAlerts(exc)

ExceptPc(block) ==
    CASE block = "hosts"    -> "hosts_except"
      [] block = "services" -> "services_except"
      [] block = "alerts"   -> "alerts_except"

\* GenericServer.Error(sys.exc_info()): (result, error)
Error(exc) == Result(Body("text", "ERROR", <<>>), exc, 0)

\* an exception raised inside try block `block`
RaiseIn(t, block, exc, fr, tr) ==
    /\ frame' = [frame EXCEPT ![t] = [fr EXCEPT !.exc = exc]]
    /\ trace' = [trace EXCEPT ![t] = [tr EXCEPT !.raised = Append(@, exc)]]
    /\ IF Catches(block, exc)
       THEN /\ pc' = [pc EXCEPT ![t] = ExceptPc(block)]
            /\ outcome' = outcome
       ELSE /\ pc' = [pc EXCEPT ![t] = "escaped"]
            /\ outcome' = [outcome EXCEPT ![t] = [kind |-> "raised", result |-> Error(exc)]]

\* return res
ReturnFrom(t, res, fr, tr) ==
    /\ frame' = [frame EXCEPT ![t] = fr]
    /\ trace' = [trace EXCEPT ![t] = tr]
    /\ pc' = [pc EXCEPT ![t] = "return"]
    /\ outcome' = [outcome EXCEPT ![t] = [kind |-> "returned", result |-> res]]

\* go on at position p
Continue(t, p, fr, tr) ==
    /\ frame' = [frame EXCEPT ![t] = fr]
    /\ trace' = [trace EXCEPT ![t] = tr]
    /\ pc' = [pc EXCEPT ![t] = p]
    /\ outcome' = outcome

----------------------------------------------------------------------------
(* GenericServer.GetStatus, first half: accept a cycle request *)

\* what the last reader got: where it came from, and whether a cycle was building
Nothing == [origin |-> "", building |-> FALSE]

\* nothing fetched, nothing running, nothing asked for by the user
IdleUI ==
    [n |-> 0, op |-> "", step |-> "idle", host |-> "", queue |-> <<>>, targets |-> 0,
     site |-> "", transid |-> 0, error |-> ""]

Fresh(threads) ==
    /\ CookieAuth = FALSE
    /\ refresh_authentication = FALSE
    /\ session = "None"
    /\ cookies = {}
    /\ isChecking = FALSE
    /\ new_hosts = EmptyMap
    /\ pc = [t \in threads |-> "idle"]
    /\ frame = [t \in threads |-> NoFrame]
    /\ outcome = [t \in threads |-> NoOutcome]
    /\ trace = [t \in threads |-> NoTrace]
    /\ observed = Nothing
    /\ ui = IdleUI
    /\ writes = <<>>
    /\ transid_next = 1
    /\ now = 100000

InitWith(threads, types) ==
    /\ TYPE \in types
    /\ hosts = EmptyMap
    /\ published = EmptyMap
    /\ Fresh(threads)

\* one polling thread per backend instance, as the scheduler runs them
Init == InitWith({"p1"}, {"Checkmk Multisite", "alertmanager"})

\* a cycle request: a no-op while the in-progress flag is set
GetStatus(t) ==
    /\ pc[t] = "idle"
    /\ ~isChecking
    /\ isChecking' = TRUE
    /\ new_hosts' = EmptyMap
    /\ pc' = [pc EXCEPT ![t] = "init_HTTP"]
    /\ frame' = [frame EXCEPT ![t] = NoFrame]
    /\ outcome' = [outcome EXCEPT ![t] = NoOutcome]
    /\ trace' = [trace EXCEPT ![t] = NoTrace]
    /\ UNCHANGED <<TYPE, sessVars, hosts, observed, published, uiVars>>

----------------------------------------------------------------------------
(* MultisiteServer: session *)

\* _is_auth_in_cookies
IsAuthInCookies == session # "None" /\ "auth_site" \in cookies

\* as if line 114 read "if self.CookieAuth:"
init_HTTP_ignoresRefresh(t) ==
    /\ pc[t] = "init_HTTP"
    /\ session' = "Session"
    /\ cookies' = IF session = "None" THEN {} ELSE cookies
    /\ pc' = [pc EXCEPT ![t] =
                IF TYPE = "alertmanager" THEN "get_alerts"
                ELSE IF CookieAuth /\ cookies' = {} THEN "init_login" ELSE "get_hosts"]
    /\ UNCHANGED <<TYPE, CookieAuth, refresh_authentication, isChecking, hosts, new_hosts,
                   frame, outcome, trace, observed, published, uiVars>>

\* init_HTTP: GenericServer.init_HTTP creates the session; then log in when cookie
\* authentication is known, no re-authentication is pending and the jar is empty
init_HTTP(t) ==
    /\ pc[t] = "init_HTTP"
    /\ session' = "Session"
    /\ cookies' = IF session = "None" THEN {} ELSE cookies
    /\ pc' = [pc EXCEPT ![t] =
                IF TYPE = "alertmanager" THEN "get_alerts"
                ELSE IF CookieAuth /\ ~refresh_authentication /\ cookies' = {}
                     THEN "init_login" ELSE "get_hosts"]
    /\ UNCHANGED <<TYPE, CookieAuth, refresh_authentication, isChecking, hosts, new_hosts,
                   frame, outcome, trace, observed, published, uiVars>>

\* what the login request can do
LoginResponses ==
    {Response(TRUE, "", 0, EmptyBody), Response(FALSE, "", 200, Body("html", "<html>", <<>>))}

\* _get_cookie_login: post the credentials; a failure of the request is caught and
\* logged; the backend decides which cookies the jar gets
MS_get_cookie_login(t) ==
    /\ pc[t] \in {"init_login", "url_login"}
    /\ \E r \in LoginResponses, got \in {{}, {"auth_site"}} :
         /\ r.exc => got = {}
         /\ cookies' = cookies \cup got
         /\ trace' = [trace EXCEPT ![t] = Logged(@, "login", "login.py", r)]
    /\ pc' = [pc EXCEPT ![t] = IF pc[t] = "init_login" THEN "get_hosts" ELSE "refetch"]
    /\ UNCHANGED <<TYPE, CookieAuth, refresh_authentication, session, isChecking, hosts,
                   new_hosts, frame, outcome, observed, published, uiVars>>

----------------------------------------------------------------------------
(* MultisiteServer._get_status around _get_url *)

\* what _get_url returns: the string '' or a list
EmptyStr == [str |-> TRUE, list |-> <<>>]
List(tb) == [str |-> FALSE, list |-> tb]

\* as if lines 237-240 were missing
AfterValue_unchecked(t, which, v, fr, tr) ==
    Continue(t, IF which = "hosts" THEN "host_rows" ELSE "service_rows",
             [fr EXCEPT !.header = IF v.list = <<>> THEN <<>> ELSE v.list[1],
                        !.rows = Rest(v.list)],
             tr)

\* the value _get_url returned, in the hosts block or in the services block:
\* '' from the host fetch is "Login failed"; otherwise the loop over response[1:]
AfterValue(t, which, v, fr, tr) ==
    IF which = "hosts" /\ v.str
    THEN ReturnFrom(t, Result(EmptyBody, "Login failed", 401), fr, tr)
    ELSE Continue(t, IF which = "hosts" THEN "host_rows" ELSE "service_rows",
                  [fr EXCEPT !.header = IF v.list = <<>> THEN <<>> ELSE v.list[1],
                             !.rows = Rest(v.list)],
                  tr)

\* except MultisiteError as e: a terminating one returns e.result; another one leaves
\* response = [] in the hosts block and reads e.result.content in the services block,
\* an attribute no Result has
AfterMultisiteError(t, which, terminate, res, fr, tr) ==
    IF terminate THEN ReturnFrom(t, res, fr, tr)
    ELSE IF which = "hosts" THEN AfterValue(t, which, List(<<>>), fr, tr)
    ELSE RaiseIn(t, which, "AttributeError", fr, tr)

\* return eval(content)
EvalContent(t, which, body, fr, tr) ==
    IF body.shape = "literal" THEN AfterValue(t, which, List(body.table), fr, tr)
    ELSE RaiseIn(t, which, "SyntaxError", fr, tr)

\* _get_url up to its first return, raise or login, the backend answering with one of
\* the given responses
GetUrl(t, hostResponses, serviceResponses) ==
    /\ TYPE = "Checkmk Multisite"
    /\ pc[t] \in {"get_hosts", "get_services"}
    /\ LET which == IF pc[t] = "get_hosts" THEN "hosts" ELSE "services" IN
       \E r \in (IF which = "hosts" THEN hostResponses ELSE serviceResponses) :
         LET fr == [frame[t] EXCEPT !.which = which]
             tr == Sent(Logged(trace[t], "fetch", which, r), frame[t].url_params)
         IN
         IF r.exc
         THEN RaiseIn(t, which, "TransportError", fr, tr) /\ UNCHANGED sessVars
         ELSE IF r.error # "" \/ r.status_code >= 400
         THEN /\ AfterMultisiteError(t, which, TRUE,
                                     Result(r.body, r.error, r.status_code), fr, tr)
              /\ UNCHANGED sessVars
         ELSE IF StartsWith(r.body, "WARNING:")
         THEN /\ AfterMultisiteError(t, which, FALSE,
                    Result(Body("literal", "", r.body.table), r.body.line, r.status_code),
                    fr, tr)
              /\ UNCHANGED sessVars
         ELSE IF StartsWith(r.body, "ERROR:")
         THEN /\ AfterMultisiteError(t, which, TRUE,
                                     Result(r.body, r.body.line, r.status_code), fr, tr)
              /\ UNCHANGED sessVars
         ELSE IF CookieAuth /\ session # "None"
         THEN IF ~IsAuthInCookies
              THEN /\ refresh_authentication' = TRUE
                   /\ AfterValue(t, which, EmptyStr, fr, tr)
                   /\ UNCHANGED <<CookieAuth, session, cookies>>
              ELSE IF StartsWith(r.body, "<")
              THEN /\ refresh_authentication' = TRUE
                   /\ AfterValue(t, which, EmptyStr, fr, tr)
                   /\ UNCHANGED <<CookieAuth, session, cookies>>
              ELSE EvalContent(t, which, r.body, fr, tr) /\ UNCHANGED sessVars
         ELSE IF StartsWith(r.body, "<")
         THEN /\ CookieAuth' = TRUE
              /\ IF ~IsAuthInCookies
                 THEN /\ Continue(t, "url_login", fr, tr)
                      /\ UNCHANGED <<refresh_authentication, session, cookies>>
                 ELSE /\ refresh_authentication' = TRUE
                      /\ AfterValue(t, which, EmptyStr, fr, tr)
                      /\ UNCHANGED <<session, cookies>>
         ELSE EvalContent(t, which, r.body, fr, tr) /\ UNCHANGED sessVars
    /\ UNCHANGED <<TYPE, isChecking, hosts, new_hosts, observed, published, uiVars>>

MS_get_url(t) == GetUrl(t, HostResponses, ServiceResponses)

\* _get_url after the login: fetch the same URL again; only the body is looked at
Refetch(t, hostResponses, serviceResponses) ==
    /\ pc[t] = "refetch"
    /\ LET which == frame[t].which IN
       \E r \in (IF which = "hosts" THEN hostResponses ELSE serviceResponses) :
         LET tr == Sent(Logged(trace[t], "fetch", which, r), frame[t].url_params) IN
         IF r.exc THEN RaiseIn(t, which, "TransportError", frame[t], tr)
         ELSE IF StartsWith(r.body, "<") THEN AfterValue(t, which, EmptyStr, frame[t], tr)
         ELSE EvalContent(t, which, r.body, frame[t], tr)
    /\ UNCHANGED <<TYPE, sessVars, isChecking, hosts, new_hosts, observed,
                   published, uiVars>>

MS_refetch(t) == Refetch(t, HostResponses, ServiceResponses)

----------------------------------------------------------------------------
(* MultisiteServer._get_status: the rows *)

\* self.statemap.get(state, state)
statemap(state) ==
    CASE state = "UNREACH" -> "UNREACHABLE"
      [] state = "CRIT"    -> "CRITICAL"
      [] state = "WARN"    -> "WARNING"
      [] state = "UNKN"    -> "UNKNOWN"
      [] state = "PEND"    -> "PENDING"
      [] OTHER             -> state

\* html.unescape(text.replace('\n', ' ')) on the texts the backends send here
Unescape(text) ==
    CASE text = "ping &amp; loss" -> "ping & loss"
      [] text = " full&lt;90 "    -> " full<90 "
      [] OTHER                    -> text

\* str.strip()
Strip(text) ==
    CASE text = " full<90 " -> "full<90"
      [] OTHER              -> text

\* hard/soft state: the two halves of the attempt are compared as strings
StatusType(parts) == IF parts[1] # parts[2] THEN "soft" ELSE "hard"

\* every write of _get_status to a host mapping goes to self.new_hosts
WriteMapping_published(m) == hosts' = m /\ UNCHANGED new_hosts
WriteMapping(m) == new_hosts' = m /\ UNCHANGED hosts

\* the GenericHost a host row creates, before its hard/soft state is derived
HostObject(host) ==
    [GenericHost EXCEPT
        !.name = host["host"],
        !.server = "server",
        !.status = statemap(host["host_state"]),
        !.last_check = host["host_check_age"],
        !.duration = host["host_state_age"],
        !.attempt = host["host_attempt"],
        !.status_information = Unescape(Unescape(host["host_plugin_output"])),
        !.site = host["sitename_plain"],
        !.address = host["host_address"],
        !.scheduled_downtime =
            "host_in_downtime" \in DOMAIN host /\ host["host_in_downtime"] = "yes",
        !.acknowledged =
            "host_acknowledged" \in DOMAIN host /\ host["host_acknowledged"] = "yes",
        !.notifications_disabled =
            /\ "host_notifications_enabled" \in DOMAIN host
            /\ host["host_notifications_enabled"] = "no"]

\* the body of "for row in response[1:]" of the hosts block on mapping m: the mapping
\* it leaves and the exception it raises, if any
HostRow(m, host) ==
    IF ~(HostColumns \subseteq DOMAIN host) THEN [map |-> m, exc |-> "KeyError"]
    ELSE IF host["host"] \in DOMAIN m THEN [map |-> m, exc |-> ""]
    ELSE LET obj == HostObject(host)
             parts == Split(obj.attempt, "/")
         IN IF Len(parts) # 2
            THEN [map |-> Put(m, host["host"], obj), exc |-> "ValueError"]
            ELSE [map |-> Put(m, host["host"], [obj EXCEPT !.status_type = StatusType(parts)]),
                  exc |-> ""]

\* one pass of the loop of the hosts block
MS_host_row(t) ==
    /\ pc[t] = "host_rows"
    /\ frame[t].rows # <<>>
    /\ LET row == HostRow(new_hosts, Zip(frame[t].header, Head(frame[t].rows)))
           fr == [frame[t] EXCEPT !.rows = Tail(@)]
       IN /\ WriteMapping(row.map)
          /\ IF row.exc # "" THEN RaiseIn(t, "hosts", row.exc, fr, trace[t])
             ELSE Continue(t, "host_rows", fr, trace[t])
    /\ UNCHANGED <<TYPE, sessVars, isChecking, observed, published, uiVars>>

\* as if line 297 were missing
ServiceParams_always(url_params, flag) == url_params \cup FilterParams

\* if conf.filter_services_on_unreachable_hosts == True: url_params += '&hst0=On&hst1=On'
ServiceParams(url_params, flag) ==
    IF flag THEN url_params \cup FilterParams ELSE url_params

\* the loop of the hosts block is through: del response, the filter of the services
\* by what the configuration says, one of flags, and on to the services
HostsDone(t, flags) ==
    /\ pc[t] = "host_rows"
    /\ frame[t].rows = <<>>
    /\ \E flag \in flags :
          Continue(t, "get_services",
                   [frame[t] EXCEPT !.header = <<>>,
                                    !.url_params = ServiceParams(@, flag),
                                    !.conf_filter = flag],
                   trace[t])
    /\ UNCHANGED <<TYPE, sessVars, isChecking, hosts, new_hosts, observed,
                   published, uiVars>>

\* the configuration as installed: the filter is off
MS_hosts_done(t) == HostsDone(t, {FALSE})

\* as if line 335 were missing
SyntheticHost_unnamed(service) ==
    [GenericHost EXCEPT
        !.status = "UP",
        !.site = service["sitename_plain"],
        !.address = service["host_address"]]

\* as if line 336 were missing
SyntheticHost_noStatus(service) ==
    [GenericHost EXCEPT
        !.name = service["host"],
        !.site = service["sitename_plain"],
        !.address = service["host_address"]]

\* the GenericHost a service row creates for a host the host table did not have
SyntheticHost(service) ==
    [GenericHost EXCEPT
        !.name = service["host"],
        !.status = "UP",
        !.site = service["sitename_plain"],
        !.address = service["host_address"]]

\* the GenericService a service row creates, before its hard/soft state is derived
ServiceObject(service) ==
    [GenericService EXCEPT
        !.host = service["host"],
        !.server = "server",
        !.name = service["service_description"],
        !.status = statemap(service["service_state"]),
        !.last_check = service["svc_check_age"],
        !.duration = service["svc_state_age"],
        !.attempt = service["svc_attempt"],
        !.status_information = Strip(Unescape(service["svc_plugin_output"])),
        !.passiveonly =
            /\ service["svc_is_active"] = "no"
            /\ service["svc_check_command"] \notin {"check_mk-df", "check_mk"},
        !.flapping = service["svc_flapping"] = "yes",
        !.site = service["sitename_plain"],
        !.address = service["host_address"],
        !.command = service["svc_check_command"],
        !.scheduled_downtime =
            "svc_in_downtime" \in DOMAIN service /\ service["svc_in_downtime"] = "yes",
        !.acknowledged =
            "svc_acknowledged" \in DOMAIN service /\ service["svc_acknowledged"] = "yes",
        !.notifications_disabled =
            /\ "svc_notifications_enabled" \in DOMAIN service
            /\ service["svc_notifications_enabled"] = "no"]

\* the body of "for row in response[1:]" of the services block on mapping m
ServiceRow(m, service) ==
    IF ~(ServiceColumns \subseteq DOMAIN service) THEN [map |-> m, exc |-> "KeyError"]
    ELSE LET h == service["host"]
             withHost == IF h \in DOMAIN m THEN m ELSE Put(m, h, SyntheticHost(service))
             name == service["service_description"]
             obj == ServiceObject(service)
             parts == Split(obj.attempt, "/")
             stored(o) == [withHost EXCEPT ![h].services = Put(@, name, o)]
         IN IF name \in DOMAIN withHost[h].services THEN [map |-> withHost, exc |-> ""]
            ELSE IF Len(parts) # 2 THEN [map |-> stored(obj), exc |-> "ValueError"]
            ELSE [map |-> stored([obj EXCEPT !.status_type = StatusType(parts)]), exc |-> ""]

\* one pass of the loop of the services block
MS_service_row(t) ==
    /\ pc[t] = "service_rows"
    /\ frame[t].rows # <<>>
    /\ LET row == ServiceRow(new_hosts, Zip(frame[t].header, Head(frame[t].rows)))
           fr == [frame[t] EXCEPT !.rows = Tail(@)]
       IN /\ WriteMapping(row.map)
          /\ IF row.exc # "" THEN RaiseIn(t, "services", row.exc, fr, trace[t])
             ELSE Continue(t, "service_rows", fr, trace[t])
    /\ UNCHANGED <<TYPE, sessVars, isChecking, observed, published, uiVars>>

\* the loop of the services block is through: return ret
MS_services_done(t) ==
    /\ pc[t] = "service_rows"
    /\ frame[t].rows = <<>>
    /\ ReturnFrom(t, frame[t].ret, [frame[t] EXCEPT !.header = <<>>], trace[t])
    /\ UNCHANGED <<TYPE, sessVars, isChecking, hosts, new_hosts, observed,
                   published, uiVars>>

\* an except clause of _get_status: first self.isChecking = False ...
ExceptClause(t, at) ==
    /\ pc[t] = at
    /\ isChecking' = FALSE
    /\ pc' = [pc EXCEPT ![t] = "except_return"]
    /\ UNCHANGED <<TYPE, sessVars, hosts, new_hosts, frame, outcome, trace,
                   observed, published, uiVars>>

MS_hosts_except(t) == ExceptClause(t, "hosts_except")

MS_services_except(t) == ExceptClause(t, "services_except")

AM_alerts_except(t) == ExceptClause(t, "alerts_except")

\* ... then return Result(result=result, error=error) with what self.Error gives
ExceptReturn(t) ==
    /\ pc[t] = "except_return"
    /\ ReturnFrom(t, Error(frame[t].exc), frame[t], trace[t])
    /\ UNCHANGED <<TYPE, sessVars, isChecking, hosts, new_hosts, observed,
                   published, uiVars>>

----------------------------------------------------------------------------
(* AlertmanagerServer: the alert list *)

\* the configured label priority lists, as typed: names separated by ","
map_to_hostname == <<"instance", ",", "host">>
map_to_servicename == <<"alertname">>
map_to_status_information == <<"message", ",", "summary", ",", "description">>

AlertSamples ==
    << [labels |-> [severity |-> "critical", instance |-> "db1:9100", host |-> "db1",
                   alertname |-> "disk"],
       annotations |-> [summary |-> "disk full"],
       status |-> [state |-> "active"],
       startsAt |-> 99955, updatedAt |-> 99875,
       generatorURL |-> "http://prom/1", fingerprint |-> "f1"],
      [labels |-> [severity |-> "none", instance |-> "db2:9100", alertname |-> "watchdog"],
       annotations |-> [summary |-> "always firing"],
       status |-> [state |-> "active"],
       startsAt |-> 9875, updatedAt |-> 99990,
       generatorURL |-> "http://prom/2", fingerprint |-> "f2"],
      [labels |-> [severity |-> "warning", instance |-> "db3", alertname |-> "load"],
       annotations |-> [message |-> "load high"],
       status |-> [state |-> "suppressed"],
       updatedAt |-> 99000,
       generatorURL |-> "http://prom/3", fingerprint |-> "f3"],
      [labels |-> [instance |-> "db2:9100", alertname |-> "cpu"],
       annotations |-> [description |-> "cpu hot"],
       status |-> [state |-> "suppressed"],
       startsAt |-> 96275, updatedAt |-> 99995,
       generatorURL |-> "http://prom/4", fingerprint |-> "f4"],
      [labels |-> [severity |-> "None", instance |-> "db1:9100", alertname |-> "disk"],
       annotations |-> [summary |-> "muted"],
       status |-> [state |-> "active"],
       startsAt |-> 99000, updatedAt |-> 99990,
       generatorURL |-> "http://prom/5", fingerprint |-> "f5"],
      [labels |-> [severity |-> "warning", instance |-> "", host |-> "db4",
                   alertname |-> "mem"],
       annotations |-> [message |-> "", summary |-> "mem low"],
       startsAt |-> 99400, updatedAt |-> 99940,
       generatorURL |-> "http://prom/6", fingerprint |-> "f6"] >>

AlertLists == SubSeqs(AlertSamples, MaxAlerts)

\* what GET /api/v2/alerts can answer
AlertResponses ==
    {Response(TRUE, "", 0, EmptyBody),
     Response(FALSE, "timed out", 0, EmptyBody),
     Response(FALSE, "", 500, Body("html", "<html>", <<>>)),
     Response(FALSE, "", 503, Body("literal", "", <<>>))}
        \cup {Response(FALSE, "", 200, Body("literal", "", l)) : l \in AlertLists}
        \cup {Response(FALSE, "", 200, Body("garbage", "oops", <<>>))}

\* dict.get(key, default)
Get(d, key, default) == IF key \in DOMAIN d THEN d[key] ELSE default

\* as if line 156 took the severity as it is written
Upper_asWritten(text) == text

\* str.upper() on the severities the backends send here
Upper(text) ==
    CASE text = "critical" -> "CRITICAL"
      [] text = "warning"  -> "WARNING"
      [] text = "none"     -> "NONE"
      [] text = "None"     -> "NONE"
      [] OTHER             -> text

\* _detect_from_labels: the value of the first listed key that the map has
DetectFromLabels(labels, config_label_list, default_value) ==
    LET pieces == Split(config_label_list, ",")
        key(i) == IF pieces[i] = <<>> THEN "" ELSE pieces[i][1]
        hits == {i \in 1..Len(pieces) : key(i) \in DOMAIN labels}
    IN IF hits = {} THEN default_value
       ELSE labels[key(CHOOSE i \in hits : \A j \in hits : i <= j)]

\* the pieces of a host name: text, and ":<digits>" groups
Tokenize(text) ==
    CASE text = "db1:9100"          -> <<"db1", ":9100">>
      [] text = "db2:9100"          -> <<"db2", ":9100">>
      [] text = "web1:8080/metrics" -> <<"web1", ":8080", "/metrics">>
      [] text = "fe80::1:9100"      -> <<"fe80:", ":1", ":9100">>
      [] OTHER                      -> <<text>>

IsPort(token) == token \in {":9100", ":8080", ":1"}

RECURSIVE Join(_)
Join(tokens) == IF tokens = <<>> THEN "" ELSE Head(tokens) \o Join(Tail(tokens))

\* re.sub(':[0-9]+', '', hostname): every ":<digits>" group goes
StripPort(hostname) ==
    LET keep(tok) == ~IsPort(tok) IN Join(SelectSeq(Tokenize(hostname), keep))

\* as if the format were %d
Pad2_unpadded(n) == ToString(n)

\* %02d
Pad2(n) == IF n < 10 THEN "0" \o ToString(n) ELSE ToString(n)

\* _get_duration: the time from timestring until now, formatted
GetDuration(timestring) ==
    LET total == now - timestring
        days == total \div 86400
        seconds == total % 86400
        hour == seconds \div 3600
        minute == (seconds % 3600) \div 60
        second == seconds % 60
    IN IF days > 0
       THEN ToString(days) \o "d " \o ToString(hour) \o "h " \o Pad2(minute) \o "m "
                \o Pad2(second) \o "s"
       ELSE IF hour > 0
       THEN ToString(hour) \o "h " \o Pad2(minute) \o "m " \o Pad2(second) \o "s"
       ELSE IF minute > 0 THEN Pad2(minute) \o "m " \o Pad2(second) \o "s"
       ELSE Pad2(second) \o "s"

\* as if line 178 compared with "active"
Silenced_active(attempt) == attempt = "active"

\* if attempt == "suppressed": both flags True, else both False
Silenced(attempt) == attempt = "suppressed"

\* _process_alert: an exception, False (skip), or the normalized alert
ProcessAlert(alert) ==
    LET labels == Get(alert, "labels", EmptyMap)
        status == Get(alert, "status", [state |-> "active"])
        severity == Upper(Get(labels, "severity", "UNKNOWN"))
        hostname == StripPort(DetectFromLabels(labels, map_to_hostname, "unknown"))
        servicename == DetectFromLabels(labels, map_to_servicename, "unknown")
        attempt == IF "status" \in DOMAIN alert
                   THEN Get(alert["status"], "state", "unknown") ELSE "unknown"
        annotations == Get(alert, "annotations", EmptyMap)
    IN IF "state" \notin DOMAIN status THEN [kind |-> "exc", exc |-> "KeyError"]
       ELSE IF severity = "NONE" THEN [kind |-> "false"]
       ELSE IF "startsAt" \notin DOMAIN alert \/ "updatedAt" \notin DOMAIN alert
       THEN [kind |-> "exc", exc |-> "KeyError"]
       ELSE [kind |-> "data",
             data |-> [host |-> hostname,
                       name |-> servicename,
                       server |-> "server",
                       status |-> severity,
                       labels |-> labels,
                       last_check |-> GetDuration(alert["updatedAt"]),
                       attempt |-> attempt,
                       scheduled_downtime |-> Silenced(attempt),
                       acknowledged |-> Silenced(attempt),
                       duration |-> GetDuration(alert["startsAt"]),
                       generatorURL |-> Get(alert, "generatorURL", EmptyMap),
                       fingerprint |-> Get(alert, "fingerprint", EmptyMap),
                       status_information |->
                           DetectFromLabels(annotations, map_to_status_information, "")]]

\* the AlertmanagerService _get_status builds from a normalized alert
AlertService(alert_data) ==
    [host |-> alert_data.host, name |-> alert_data.name, server |-> alert_data.server,
     status |-> alert_data.status, labels |-> alert_data.labels,
     scheduled_downtime |-> alert_data.scheduled_downtime,
     acknowledged |-> alert_data.acknowledged, last_check |-> alert_data.last_check,
     attempt |-> alert_data.attempt, duration |-> alert_data.duration,
     generator_url |-> alert_data.generatorURL, fingerprint |-> alert_data.fingerprint,
     status_information |-> alert_data.status_information,
     site |-> "", address |-> "", command |-> "", passiveonly |-> FALSE,
     flapping |-> FALSE, notifications_disabled |-> FALSE, status_type |-> ""]

\* the alerts of a list that are complete and not of severity NONE, by their key
AlertKeys(list) ==
    {<<"service", ProcessAlert(list[i]).data.host, ProcessAlert(list[i]).data.name>> :
        i \in {j \in 1..Len(list) : ProcessAlert(list[j]).kind = "data"}}

\* GenericServer.check_for_error(data, error, status_code)
check_for_error(error, status_code) == error # "" \/ status_code >= 400

\* _get_status up to the loop: fetch, json.loads, check_for_error, the backend
\* answering with one of the given responses
GetAlerts(t, alertResponses) ==
    /\ TYPE = "alertmanager"
    /\ pc[t] = "get_alerts"
    /\ \E r \in alertResponses :
         LET fr == [frame[t] EXCEPT !.which = "alerts"]
             tr0 == Logged(trace[t], "fetch", "alerts", r)
             tr == IF Arrived(r) /\ r.body.shape = "literal"
                   THEN [tr0 EXCEPT !.expect = AlertKeys(r.body.table),
                                    !.bad = \E i \in 1..Len(r.body.table) :
                                               ProcessAlert(r.body.table[i]).kind = "exc"]
                   ELSE tr0
         IN IF r.exc THEN RaiseIn(t, "alerts", "TransportError", fr, tr)
            ELSE IF r.body.shape # "literal"
            THEN RaiseIn(t, "alerts", "JSONDecodeError", fr, tr)
            ELSE IF check_for_error(r.error, r.status_code)
            THEN ReturnFrom(t, Result(r.body, r.error, r.status_code), fr, tr)
            ELSE Continue(t, "alert_rows", [fr EXCEPT !.rows = r.body.table], tr)
    /\ UNCHANGED <<TYPE, sessVars, isChecking, hosts, new_hosts, observed,
                   published, uiVars>>

AM_get_alerts(t) == GetAlerts(t, AlertResponses)

\* the body of "for alert in data" on mapping m: the mapping it leaves, the exception
\* it raises, if any, and whether it leaves the loop
AlertRow(m, alert) ==
    LET alert_data == ProcessAlert(alert) IN
    IF alert_data.kind = "exc" THEN [map |-> m, exc |-> alert_data.exc, stop |-> FALSE]
    ELSE IF alert_data.kind = "false" THEN [map |-> m, exc |-> "", stop |-> TRUE]
    ELSE LET service == AlertService(alert_data.data)
             withHost ==
                 IF service.host \in DOMAIN m THEN m
                 ELSE Put(m, service.host,
                          [GenericHost EXCEPT !.name = service.host, !.server = "server"])
         IN [map |-> [withHost EXCEPT ![service.host].services = Put(@, service.name, service)],
             exc |-> "", stop |-> FALSE]

\* one pass of the loop over the alerts
AM_alert(t) ==
    /\ pc[t] = "alert_rows"
    /\ frame[t].rows # <<>>
    /\ LET row == AlertRow(new_hosts, Head(frame[t].rows))
           fr == [frame[t] EXCEPT !.rows = Tail(@)]
           tr == IF row.stop
                 THEN [trace[t] EXCEPT !.skipped = @ \cup {Head(frame[t].rows).fingerprint}]
                 ELSE trace[t]
       IN /\ WriteMapping(row.map)
          /\ IF row.exc # "" THEN RaiseIn(t, "alerts", row.exc, fr, tr)
             ELSE IF row.stop THEN ReturnFrom(t, Result(EmptyBody, "", 0), fr, tr)
             ELSE Continue(t, "alert_rows", fr, tr)
    /\ UNCHANGED <<TYPE, sessVars, isChecking, observed, published, uiVars>>

\* the loop is through: return Result()
AM_alerts_done(t) ==
    /\ pc[t] = "alert_rows"
    /\ frame[t].rows = <<>>
    /\ ReturnFrom(t, Result(EmptyBody, "", 0), frame[t], trace[t])
    /\ UNCHANGED <<TYPE, sessVars, isChecking, hosts, new_hosts, observed,
                   published, uiVars>>

----------------------------------------------------------------------------
(* GenericServer.GetStatus, second half: hand the mapping over *)

\* as if a cycle that ended with an error left the flag as it is
GetStatus_end_errorKeepsFlag(t) ==
    /\ pc[t] = "return"
    /\ IF IsSuccess(outcome[t].result)
       THEN hosts' = new_hosts /\ published' = new_hosts /\ isChecking' = FALSE
       ELSE UNCHANGED <<hosts, published, isChecking>>
    /\ pc' = [pc EXCEPT ![t] = "idle"]
    /\ frame' = [frame EXCEPT ![t] = NoFrame]
    /\ outcome' = [outcome EXCEPT ![t] = NoOutcome]
    /\ trace' = [trace EXCEPT ![t] = NoTrace]
    /\ new_hosts' = EmptyMap
    /\ UNCHANGED <<TYPE, sessVars, observed, uiVars>>

\* a successful cycle publishes the mapping it built; any cycle clears the flag
GetStatus_end(t) ==
    /\ pc[t] = "return"
    /\ IF IsSuccess(outcome[t].result)
       THEN hosts' = new_hosts /\ published' = new_hosts
       ELSE UNCHANGED <<hosts, published>>
    /\ isChecking' = FALSE
    /\ pc' = [pc EXCEPT ![t] = "idle"]
    /\ frame' = [frame EXCEPT ![t] = NoFrame]
    /\ outcome' = [outcome EXCEPT ![t] = NoOutcome]
    /\ trace' = [trace EXCEPT ![t] = NoTrace]
    /\ new_hosts' = EmptyMap
    /\ UNCHANGED <<TYPE, sessVars, observed, uiVars>>

----------------------------------------------------------------------------
(* Readers of the mapping: they run on the user's thread at any time *)

\* the mapping the readers look into: self.hosts
ReaderMapping == hosts

\* what a reader can get out of mapping m: texts of its hosts, and its services
Texts(m) == {""} \cup {m[h].address : h \in DOMAIN m} \cup {m[h].site : h \in DOMAIN m}

ServicesOf(m) == UNION {{m[h].services[x] : x \in DOMAIN m[h].services} : h \in DOMAIN m}

\* a reader got a value: from the published mapping or not, during a cycle or not
Reads(in_published) ==
    /\ observed' = [origin |-> IF in_published THEN "published" ELSE "unpublished",
                    building |-> new_hosts # EmptyMap]
    /\ UNCHANGED <<TYPE, sessVars, isChecking, hosts, new_hosts, pc, frame, outcome, trace,
                   published, uiVars>>

\* GetHost(host): the address of the host, '' when the mapping has no such host
GetHost(host) ==
    Reads((IF host \in DOMAIN ReaderMapping THEN ReaderMapping[host].address ELSE "")
            \in Texts(published))

\* open_monitor(host) of the tabular adapter: the site of the host goes into the URL;
\* _action and the _set_ methods look up the same attribute
open_monitor(host) ==
    /\ TYPE = "Checkmk Multisite"
    /\ host \in DOMAIN ReaderMapping
    /\ Reads(ReaderMapping[host].site \in Texts(published))

\* _set_acknowledge of the alert adapter looks the alert up
AM_acknowledge_alert(host, service) ==
    /\ TYPE = "alertmanager"
    /\ host \in DOMAIN ReaderMapping
    /\ service \in DOMAIN ReaderMapping[host].services
    /\ Reads(ReaderMapping[host].services[service] \in ServicesOf(published))

----------------------------------------------------------------------------
(* The write path: what the user asks for goes to the backend at once *)

\* the lists of at most n distinct elements of set S
RECURSIVE Lists(_, _)
Lists(S, n) ==
    IF n = 0 THEN {<<>>}
    ELSE {<<>>} \cup UNION {{<<x>> \o r : r \in Lists(S \ {x}, n - 1)} : x \in S}

\* a request of the write path as the backend gets it
Request(n, kind, url, host, service, transid, data, answer) ==
    [n |-> n, kind |-> kind, url |-> url, host |-> host, service |-> service,
     transid |-> transid, data |-> data, answer |-> answer]

\* what the backend makes of a submission: done, or refused or lost
Answers == {"ok", "failed"}

\* the user picks what the window shows: a host of self.hosts, one of its services or
\* '' for the host itself
Services(host) == DOMAIN ReaderMapping[host].services

\* an operation of the tabular adapter that goes through _action once per target
MS_call(op, host, queue) ==
    /\ TYPE = "Checkmk Multisite"
    /\ ui.step = "idle"
    /\ ui.n < MaxOps
    /\ host \in DOMAIN ReaderMapping
    /\ ui' = [n |-> ui.n + 1, op |-> op, step |-> "transid", host |-> host, queue |-> queue,
              targets |-> Len(queue) - 1, site |-> "", transid |-> 0, error |-> ""]
    /\ UNCHANGED <<TYPE, sessVars, isChecking, hosts, new_hosts, pc, frame, outcome, trace,
                   observed, published, writes, transid_next, now>>

\* _set_acknowledge: the target, then every service of all_services
MS_set_acknowledge(host, service, all_services) ==
    MS_call("set_acknowledge", host, <<service>> \o all_services)

MS_set_downtime(host, service) == MS_call("set_downtime", host, <<service>>)

MS_set_recheck(host, service) == MS_call("set_recheck", host, <<service>>)

\* _action up to its submission: params reads self.hosts[host].site, a KeyError when a
\* cycle has published a mapping without the host meanwhile; then _get_transid fetches
\* the page of the target and takes the token out of it; a page without the token
\* raises, and nothing of the write path catches either
MS_get_transid ==
    /\ ui.step = "transid"
    /\ IF ui.host \notin DOMAIN ReaderMapping
       THEN /\ ui' = [ui EXCEPT !.step = "idle", !.error = "KeyError"]
            /\ UNCHANGED <<writes, transid_next>>
       ELSE \E found \in BOOLEAN :
              /\ writes' = Append(writes, Request(ui.n, "transid", "transid", ui.host,
                                                  Head(ui.queue), transid_next, EmptyMap,
                                                  IF found THEN "ok" ELSE "failed"))
              /\ transid_next' = transid_next + 1
              /\ ui' = IF found
                       THEN [ui EXCEPT !.step = "submit", !.transid = transid_next,
                                       !.site = ReaderMapping[ui.host].site]
                       ELSE [ui EXCEPT !.step = "idle", !.error = "TypeError"]
    /\ UNCHANGED <<TYPE, sessVars, isChecking, hosts, new_hosts, pc, frame, outcome, trace,
                   observed, published, now>>

\* as if _action looked at what FetchURL returned and sent a refused request again
MS_action_retries ==
    /\ ui.step = "submit"
    /\ \E answer \in Answers :
         LET service == Head(ui.queue) IN
         /\ writes' = Append(writes,
                         Request(ui.n, "submit",
                                 IF service # "" THEN "api_service_act" ELSE "api_host_act",
                                 ui.host, service, ui.transid, [site |-> ui.site], answer))
         /\ ui' = IF answer = "failed" /\ Len(writes) < 6 THEN ui
                  ELSE [ui EXCEPT !.queue = Tail(@),
                                  !.step = IF Tail(ui.queue) = <<>> THEN "idle"
                                           ELSE "transid"]
    /\ UNCHANGED <<TYPE, sessVars, isChecking, hosts, new_hosts, pc, frame, outcome, trace,
                   observed, published, transid_next, now>>

\* _action after _get_transid: the token replaces -1 in the URL, the request goes out,
\* and what FetchURL returns is dropped
MS_action ==
    /\ ui.step = "submit"
    /\ \E answer \in Answers :
         LET service == Head(ui.queue) IN
         writes' = Append(writes,
                      Request(ui.n, "submit",
                              IF service # "" THEN "api_service_act" ELSE "api_host_act",
                              ui.host, service, ui.transid, [site |-> ui.site], answer))
    /\ ui' = [ui EXCEPT !.queue = Tail(@),
                        !.step = IF Tail(ui.queue) = <<>> THEN "idle" ELSE "transid"]
    /\ UNCHANGED <<TYPE, sessVars, isChecking, hosts, new_hosts, pc, frame, outcome, trace,
                   observed, published, transid_next, now>>

\* recheck_all: one request to api_svcprob_act, its URL as configured
recheck_all ==
    /\ TYPE = "Checkmk Multisite"
    /\ ui.step = "idle"
    /\ ui.n < MaxOps
    /\ \E answer \in Answers :
         writes' = Append(writes, Request(ui.n + 1, "submit", "api_svcprob_act", "", "", -1,
                                          EmptyMap, answer))
    /\ ui' = [IdleUI EXCEPT !.n = ui.n + 1, !.op = "recheck_all"]
    /\ UNCHANGED <<TYPE, sessVars, isChecking, hosts, new_hosts, pc, frame, outcome, trace,
                   observed, published, transid_next, now>>

\* the expiry times the acknowledge dialog hands over
ExpireTimes == {"None", "2026-11-01 18:00"}

\* timestring_to_utc: parse the local time, give it in UTC and ISO format
timestring_to_utc(timestring) ==
    CASE timestring = "2026-11-01 18:00" -> "2026-11-01T17:00:00+00:00"
      [] timestring = "2026-11-01 16:00" -> "2026-11-01T15:00:00+00:00"
      [] OTHER                           -> "TypeError"

\* set_acknowledge and _set_acknowledge of the alert adapter: one silence for the alert
AM_set_acknowledge(host, service, all_services, expire_time) ==
    /\ TYPE = "alertmanager"
    /\ ui.step = "idle"
    /\ ui.n < MaxOps
    /\ host \in DOMAIN ReaderMapping
    /\ LET ends_at == timestring_to_utc(expire_time)
           error == IF service \notin Services(host) THEN "KeyError"
                    ELSE IF ends_at = "TypeError" THEN "TypeError" ELSE ""
       IN /\ ui' = [IdleUI EXCEPT !.n = ui.n + 1, !.op = "set_acknowledge", !.host = host,
                                  !.targets = Len(all_services), !.error = error]
          /\ IF error # "" THEN writes' = writes
             ELSE \E answer \in Answers :
                    writes' = Append(writes,
                       Request(ui.n + 1, "submit", "silences", host, service, 0,
                               [matchers |-> ReaderMapping[host].services[service].labels,
                                startsAt |-> now, endsAt |-> ends_at], answer))
    /\ UNCHANGED <<TYPE, sessVars, isChecking, hosts, new_hosts, pc, frame, outcome, trace,
                   observed, published, transid_next, now>>

\* _set_downtime of the alert adapter: one silence matching instance and alertname,
\* sent with requests.post, whose exceptions nothing catches
AM_set_downtime(host, service) ==
    /\ TYPE = "alertmanager"
    /\ ui.step = "idle"
    /\ ui.n < MaxOps
    /\ host \in DOMAIN ReaderMapping
    /\ \E answer \in Answers \cup {"raised"} :
         /\ ui' = [IdleUI EXCEPT !.n = ui.n + 1, !.op = "set_downtime", !.host = host,
                                 !.error = IF answer = "raised" THEN "ConnectionError"
                                           ELSE ""]
         /\ writes' = Append(writes,
                         Request(ui.n + 1, "submit", "silences", host, service, 0,
                                 [matchers |-> [instance |-> host, alertname |-> service],
                                  startsAt |-> timestring_to_utc("2026-11-01 16:00"),
                                  endsAt |-> timestring_to_utc("2026-11-01 18:00")],
                                 answer))
    /\ UNCHANGED <<TYPE, sessVars, isChecking, hosts, new_hosts, pc, frame, outcome, trace,
                   observed, published, transid_next, now>>

----------------------------------------------------------------------------
(* The specifications *)

\* the fetch cycles of one backend instance and the readers of its mapping
Next ==
    \/ \E t \in DOMAIN pc : GetStatus(t)
    \/ \E t \in DOMAIN pc : init_HTTP(t)
    \/ \E t \in DOMAIN pc : MS_get_cookie_login(t)
    \/ \E t \in DOMAIN pc : MS_get_url(t)
    \/ \E t \in DOMAIN pc : MS_refetch(t)
    \/ \E t \in DOMAIN pc : MS_host_row(t)
    \/ \E t \in DOMAIN pc : MS_hosts_done(t)
    \/ \E t \in DOMAIN pc : MS_hosts_except(t)
    \/ \E t \in DOMAIN pc : MS_service_row(t)
    \/ \E t \in DOMAIN pc : MS_services_done(t)
    \/ \E t \in DOMAIN pc : MS_services_except(t)
    \/ \E t \in DOMAIN pc : AM_get_alerts(t)
    \/ \E t \in DOMAIN pc : AM_alert(t)
    \/ \E t \in DOMAIN pc : AM_alerts_done(t)
    \/ \E t \in DOMAIN pc : AM_alerts_except(t)
    \/ \E t \in DOMAIN pc : ExceptReturn(t)
    \/ \E t \in DOMAIN pc : GetStatus_end(t)
    \/ \E host \in DOMAIN ReaderMapping \cup {"unknown"} : GetHost(host)
    \/ \E host \in DOMAIN ReaderMapping : open_monitor(host)
    \/ \E host \in DOMAIN ReaderMapping :
          \E service \in DOMAIN ReaderMapping[host].services :
             AM_acknowledge_alert(host, service)

Spec == Init /\ [][Next]_vars

\* a step of a cycle that was accepted: the polling thread runs, and every request
\* comes back, with an answer or with a transport error
CycleStep ==
    \E t \in DOMAIN pc :
        \/ init_HTTP(t) \/ MS_get_cookie_login(t) \/ MS_get_url(t) \/ MS_refetch(t)
        \/ MS_host_row(t) \/ MS_hosts_done(t) \/ MS_hosts_except(t)
        \/ MS_service_row(t) \/ MS_services_done(t) \/ MS_services_except(t)
        \/ AM_get_alerts(t) \/ AM_alert(t) \/ AM_alerts_done(t) \/ AM_alerts_except(t)
        \/ ExceptReturn(t) \/ GetStatus_end(t)

\* the fetch cycles of one backend instance, the polling thread not being stopped
\* inside a cycle
NextCycles == (\E t \in DOMAIN pc : GetStatus(t)) \/ CycleStep

SpecLive == Init /\ [][NextCycles]_vars /\ WF_vars(CycleStep)

\* two requesters of cycles on one instance of the alert adapter: the timer and the
\* user's "refresh now"
InitRequesters == InitWith({"p1", "p2"}, {"alertmanager"})

NextRequesters ==
    \/ \E t \in DOMAIN pc : GetStatus(t)
    \/ \E t \in DOMAIN pc : init_HTTP(t)
    \/ \E t \in DOMAIN pc : AM_get_alerts(t)
    \/ \E t \in DOMAIN pc : AM_alert(t)
    \/ \E t \in DOMAIN pc : AM_alerts_done(t)
    \/ \E t \in DOMAIN pc : AM_alerts_except(t)
    \/ \E t \in DOMAIN pc : ExceptReturn(t)
    \/ \E t \in DOMAIN pc : GetStatus_end(t)

SpecRequesters == InitRequesters /\ [][NextRequesters]_vars

\* the mapping a cycle publishes from the first two sample records of each kind
SnapshotOf(type) ==
    IF type = "alertmanager"
    THEN AlertRow(AlertRow(EmptyMap, AlertSamples[1]).map, AlertSamples[4]).map
    ELSE LET h1 == HostRow(EmptyMap, Zip(HostHeader, HostRowSamples[1])).map
             h2 == HostRow(h1, Zip(HostHeader, HostRowSamples[2])).map
             s1 == ServiceRow(h2, Zip(ServiceHeader, ServiceRowSamples[1])).map
         IN ServiceRow(s1, Zip(ServiceHeader, ServiceRowSamples[2])).map

\* the user's operations on a published mapping, no cycle running
InitWrite ==
    /\ TYPE \in {"Checkmk Multisite", "alertmanager"}
    /\ Fresh({"p1"})
    /\ hosts = SnapshotOf(TYPE)
    /\ published = hosts

\* what the user can pick in the window
Picks ==
    UNION {{<<host, service>> : service \in Services(host) \cup {""}} :
             host \in DOMAIN ReaderMapping}

NextWrite ==
    \/ \E pick \in Picks :
          \E all_services \in Lists(Services(pick[1]), MaxTargets) :
             MS_set_acknowledge(pick[1], pick[2], all_services)
    \/ \E pick \in Picks : MS_set_downtime(pick[1], pick[2])
    \/ \E pick \in Picks : MS_set_recheck(pick[1], pick[2])
    \/ MS_get_transid
    \/ MS_action
    \/ recheck_all
    \/ \E pick \in Picks, expire_time \in ExpireTimes :
          \E all_services \in Lists(Services(pick[1]), MaxTargets) :
             AM_set_acknowledge(pick[1], pick[2], all_services, expire_time)
    \/ \E pick \in Picks : AM_set_downtime(pick[1], pick[2])

SpecWrite == InitWrite /\ [][NextWrite]_vars

\* the user's operations while the polling thread runs its cycles: the cycles up to
\* the first hand-over that changes the published mapping
NextInterleaved ==
    \/ \E t \in DOMAIN pc : hosts = SnapshotOf(TYPE) /\ GetStatus(t)
    \/ \E t \in DOMAIN pc : init_HTTP(t)
    \/ \E t \in DOMAIN pc : MS_get_cookie_login(t)
    \/ \E t \in DOMAIN pc : MS_get_url(t)
    \/ \E t \in DOMAIN pc : MS_refetch(t)
    \/ \E t \in DOMAIN pc : MS_host_row(t)
    \/ \E t \in DOMAIN pc : MS_hosts_done(t)
    \/ \E t \in DOMAIN pc : MS_hosts_except(t)
    \/ \E t \in DOMAIN pc : MS_service_row(t)
    \/ \E t \in DOMAIN pc : MS_services_done(t)
    \/ \E t \in DOMAIN pc : MS_services_except(t)
    \/ \E t \in DOMAIN pc : AM_get_alerts(t)
    \/ \E t \in DOMAIN pc : AM_alert(t)
    \/ \E t \in DOMAIN pc : AM_alerts_done(t)
    \/ \E t \in DOMAIN pc : AM_alerts_except(t)
    \/ \E t \in DOMAIN pc : ExceptReturn(t)
    \/ \E t \in DOMAIN pc : GetStatus_end(t)
    \/ \E pick \in Picks :
          \E all_services \in Lists(Services(pick[1]), MaxTargets) :
             ui.n < MaxInterleaved /\ MS_set_acknowledge(pick[1], pick[2], all_services)
    \/ \E pick \in Picks : ui.n < MaxInterleaved /\ MS_set_downtime(pick[1], pick[2])
    \/ \E pick \in Picks : ui.n < MaxInterleaved /\ MS_set_recheck(pick[1], pick[2])
    \/ MS_get_transid
    \/ MS_action
    \/ ui.n < MaxInterleaved /\ recheck_all
    \/ \E pick \in Picks, expire_time \in ExpireTimes :
          \E all_services \in Lists(Services(pick[1]), MaxTargets) :
             /\ ui.n < MaxInterleaved
             /\ AM_set_acknowledge(pick[1], pick[2], all_services, expire_time)
    \/ \E pick \in Picks : ui.n < MaxInterleaved /\ AM_set_downtime(pick[1], pick[2])

SpecInterleaved == InitWrite /\ [][NextInterleaved]_vars

\* datetime.now(timezone.utc) goes on by a minute
Tick ==
    /\ now < 100000 + 60 * MaxTicks
    /\ now' = now + 60
    /\ UNCHANGED <<TYPE, sessVars, isChecking, hosts, new_hosts, pc, frame, outcome, trace,
                   observed, published, ui, writes, transid_next>>

\* the loop "for alert in data" from mapping m on: the mapping it leaves, and the
\* exception that ended it, if any
RECURSIVE AlertLoop(_, _)
AlertLoop(m, data) ==
    IF data = <<>> THEN [map |-> m, exc |-> ""]
    ELSE LET row == AlertRow(m, Head(data)) IN
         IF row.exc # "" \/ row.stop THEN [map |-> row.map, exc |-> row.exc]
         ELSE AlertLoop(row.map, Tail(data))

\* the loop "for row in response[1:]" of the hosts block from mapping m on
RECURSIVE HostLoop(_, _, _)
HostLoop(m, header, rows) ==
    IF rows = <<>> THEN [map |-> m, exc |-> ""]
    ELSE LET row == HostRow(m, Zip(header, Head(rows))) IN
         IF row.exc # "" THEN row ELSE HostLoop(row.map, header, Tail(rows))

\* the loop "for row in response[1:]" of the services block from mapping m on
RECURSIVE ServiceLoop(_, _, _)
ServiceLoop(m, header, rows) ==
    IF rows = <<>> THEN [map |-> m, exc |-> ""]
    ELSE LET row == ServiceRow(m, Zip(header, Head(rows))) IN
         IF row.exc # "" THEN row ELSE ServiceLoop(row.map, header, Tail(rows))

\* the two loops of the tabular adapter on the two tables of a cycle
TableLoops(host_table, service_table) ==
    LET h == HostLoop(EmptyMap, host_table[1], Rest(host_table)) IN
    IF h.exc # "" THEN h ELSE ServiceLoop(h.map, service_table[1], Rest(service_table))

\* the fetch cycles of one backend instance while the clock goes on
NextClock ==
    \/ \E t \in DOMAIN pc : GetStatus(t)
    \/ \E t \in DOMAIN pc : init_HTTP(t)
    \/ \E t \in DOMAIN pc : MS_get_cookie_login(t)
    \/ \E t \in DOMAIN pc : MS_get_url(t)
    \/ \E t \in DOMAIN pc : MS_refetch(t)
    \/ \E t \in DOMAIN pc : MS_host_row(t)
    \/ \E t \in DOMAIN pc : MS_hosts_done(t)
    \/ \E t \in DOMAIN pc : MS_hosts_except(t)
    \/ \E t \in DOMAIN pc : MS_service_row(t)
    \/ \E t \in DOMAIN pc : MS_services_done(t)
    \/ \E t \in DOMAIN pc : MS_services_except(t)
    \/ \E t \in DOMAIN pc : AM_get_alerts(t)
    \/ \E t \in DOMAIN pc : AM_alert(t)
    \/ \E t \in DOMAIN pc : AM_alerts_done(t)
    \/ \E t \in DOMAIN pc : AM_alerts_except(t)
    \/ \E t \in DOMAIN pc : ExceptReturn(t)
    \/ \E t \in DOMAIN pc : GetStatus_end(t)
    \/ Tick

SpecClock == Init /\ [][NextClock]_vars

\* responses in which a key comes twice: the row of h1, the row of h1/disk and the
\* alert db1/disk, each followed by a later record of the same key with other values
RepeatedHostRows ==
    << HostRowSamples[1],
       <<"h1", "UP", "1 s", "7 m", "ok", <<"3", "/", "3">>,
         "siteA", "10.0.0.9", "no", "yes", "yes">> >>

RepeatedServiceRows ==
    << ServiceRowSamples[1],
       <<"h1", "disk", "WARN", "1 s", "1 m", <<"3", "/", "3">>, "later",
         "no", "check_mk-df", "no", "siteA", "10.0.0.1", "no", "yes", "yes">> >>

RepeatedAlerts ==
    << AlertSamples[1],
       [labels |-> [severity |-> "warning", instance |-> "db1:9100", host |-> "db1",
                    alertname |-> "disk"],
        annotations |-> [summary |-> "disk nearly full"],
        status |-> [state |-> "suppressed"],
        startsAt |-> 99900, updatedAt |-> 99990,
        generatorURL |-> "http://prom/7", fingerprint |-> "f7"] >>

RepeatedHostResponses ==
    Responses({<<HostHeader>> \o rows : rows \in SubSeqs(RepeatedHostRows, MaxRepeated)})

RepeatedServiceResponses ==
    Responses({<<ServiceHeader>> \o rows :
                  rows \in SubSeqs(RepeatedServiceRows, MaxRepeated)})

RepeatedAlertResponses ==
    {Response(FALSE, "", 200, Body("literal", "", l)) :
        l \in SubSeqs(RepeatedAlerts, MaxRepeated)}
        \cup {Response(TRUE, "", 0, EmptyBody)}

\* the fetch cycles of one backend instance on such responses
NextRepeated ==
    \/ \E t \in DOMAIN pc : GetStatus(t)
    \/ \E t \in DOMAIN pc : init_HTTP(t)
    \/ \E t \in DOMAIN pc : MS_get_cookie_login(t)
    \/ \E t \in DOMAIN pc : GetUrl(t, RepeatedHostResponses, RepeatedServiceResponses)
    \/ \E t \in DOMAIN pc : Refetch(t, RepeatedHostResponses, RepeatedServiceResponses)
    \/ \E t \in DOMAIN pc : MS_host_row(t)
    \/ \E t \in DOMAIN pc : MS_hosts_done(t)
    \/ \E t \in DOMAIN pc : MS_hosts_except(t)
    \/ \E t \in DOMAIN pc : MS_service_row(t)
    \/ \E t \in DOMAIN pc : MS_services_done(t)
    \/ \E t \in DOMAIN pc : MS_services_except(t)
    \/ \E t \in DOMAIN pc : GetAlerts(t, RepeatedAlertResponses)
    \/ \E t \in DOMAIN pc : AM_alert(t)
    \/ \E t \in DOMAIN pc : AM_alerts_done(t)
    \/ \E t \in DOMAIN pc : AM_alerts_except(t)
    \/ \E t \in DOMAIN pc : ExceptReturn(t)
    \/ \E t \in DOMAIN pc : GetStatus_end(t)

SpecRepeated == Init /\ [][NextRepeated]_vars

\* alerts whose instance label holds ":<digits>" at the end, before a path, and inside
\* an IPv6 address
PortAlerts ==
    << AlertSamples[1],
       [labels |-> [severity |-> "warning", instance |-> "web1:8080/metrics",
                    alertname |-> "probe"],
        annotations |-> [summary |-> "probe failed"],
        status |-> [state |-> "active"],
        startsAt |-> 99900, updatedAt |-> 99990,
        generatorURL |-> "http://prom/8", fingerprint |-> "f8"],
       [labels |-> [severity |-> "critical", instance |-> "fe80::1:9100",
                    alertname |-> "node"],
        annotations |-> [summary |-> "node down"],
        status |-> [state |-> "active"],
        startsAt |-> 99900, updatedAt |-> 99990,
        generatorURL |-> "http://prom/9", fingerprint |-> "f9"],
       AlertSamples[6] >>

PortAlertResponses ==
    {Response(FALSE, "", 200, Body("literal", "", l)) : l \in SubSeqs(PortAlerts, MaxAlerts)}
        \cup {Response(TRUE, "", 0, EmptyBody)}

InitPorts == InitWith({"p1"}, {"alertmanager"})

\* the fetch cycles of one instance of the alert adapter on such alerts
NextPorts ==
    \/ \E t \in DOMAIN pc : GetStatus(t)
    \/ \E t \in DOMAIN pc : init_HTTP(t)
    \/ \E t \in DOMAIN pc : GetAlerts(t, PortAlertResponses)
    \/ \E t \in DOMAIN pc : AM_alert(t)
    \/ \E t \in DOMAIN pc : AM_alerts_done(t)
    \/ \E t \in DOMAIN pc : AM_alerts_except(t)
    \/ \E t \in DOMAIN pc : ExceptReturn(t)
    \/ \E t \in DOMAIN pc : GetStatus_end(t)

SpecPorts == InitPorts /\ [][NextPorts]_vars

InitFilter == InitWith({"p1"}, {"Checkmk Multisite"})

\* the fetch cycles of one instance of the tabular adapter while the user switches
\* conf.filter_services_on_unreachable_hosts on and off between them
NextFilter ==
    \/ \E t \in DOMAIN pc : GetStatus(t)
    \/ \E t \in DOMAIN pc : init_HTTP(t)
    \/ \E t \in DOMAIN pc : MS_get_cookie_login(t)
    \/ \E t \in DOMAIN pc : MS_get_url(t)
    \/ \E t \in DOMAIN pc : MS_refetch(t)
    \/ \E t \in DOMAIN pc : MS_host_row(t)
    \/ \E t \in DOMAIN pc : HostsDone(t, BOOLEAN)
    \/ \E t \in DOMAIN pc : MS_hosts_except(t)
    \/ \E t \in DOMAIN pc : MS_service_row(t)
    \/ \E t \in DOMAIN pc : MS_services_done(t)
    \/ \E t \in DOMAIN pc : MS_services_except(t)
    \/ \E t \in DOMAIN pc : ExceptReturn(t)
    \/ \E t \in DOMAIN pc : GetStatus_end(t)

SpecFilter == InitFilter /\ [][NextFilter]_vars

----------------------------------------------------------------------------
(* Properties *)

\* the keys a mapping holds: its hosts, and the services under each host
Keys(m) ==
    {<<"host", h>> : h \in DOMAIN m}
        \cup UNION {{<<"service", h, x>> : x \in DOMAIN m[h].services} : h \in DOMAIN m}

\* _get_status of thread t has returned its Result to GetStatus
Returned(t) == pc[t] = "return"

\* the table and alert-list requests of the cycle of thread t
Fetches(t) == {i \in 1..Len(trace[t].events) : trace[t].events[i].op = "fetch"}

\* a response that arrived whole and holds records
Usable(e) ==
    ~e.exc /\ e.error = "" /\ e.status_code < 400 /\ e.shape \in {"literal", "warning"}

\* the last request for each URL of the cycle got a usable response
LastFetchesUsable(t) ==
    \A i \in Fetches(t) :
        (\A j \in Fetches(t) : j > i => trace[t].events[j].url # trace[t].events[i].url)
            => Usable(trace[t].events[i])

\* C1: a cycle that returns a success Result has built its mapping from every record
\* of every response it fetched, and every response it fetched last was usable; a
\* login page for the service table does not end in success
C1_SnapshotComplete ==
    \A t \in DOMAIN pc :
        Returned(t) /\ IsSuccess(outcome[t].result)
            => trace[t].expect \subseteq Keys(new_hosts) /\ LastFetchesUsable(t)

\* the step of thread t is a table request that got a page starting with '<'
FetchedHtml(t) ==
    /\ Len(trace'[t].events) = Len(trace[t].events) + 1
    /\ LET e == trace'[t].events[Len(trace'[t].events)]
       IN e.op = "fetch" /\ ~e.exc /\ e.error = "" /\ e.status_code < 400
            /\ e.shape = "html"

\* a login was followed by a request that again got a page starting with '<'
RefetchedHtml(tr) ==
    \E i \in 1..(Len(tr.events) - 1) :
        /\ tr.events[i].op = "login"
        /\ tr.events[i + 1].op = "fetch"
        /\ tr.events[i + 1].shape = "html"

\* C2: on the tabular adapter, in every session state, a table request answered by a
\* page starting with '<' is followed by one login and one request of the same URL
\* again; if that one is answered by such a page too, the cycle ends in an error
C2_OneLoginOneRefetch ==
    [][\A t \in DOMAIN pc :
          /\ pc[t] \in {"get_hosts", "get_services"} /\ FetchedHtml(t)
                => pc'[t] = "url_login"
          /\ pc[t] = "url_login" => pc'[t] \in {"url_login", "refetch"}
          /\ pc'[t] = "return" /\ RefetchedHtml(trace'[t])
                => ~IsSuccess(outcome'[t].result)]_vars

\* C3: on the tabular adapter a body starting with 'WARNING:', for the host table as
\* for the service table, ends in a successful Result: the rows after the first line
\* are in the mapping and the first line is the error field of the Result
C3_WarningTaken ==
    \A t \in DOMAIN pc :
        /\ TYPE = "Checkmk Multisite"
        /\ Returned(t)
        /\ \A i \in Fetches(t) : Usable(trace[t].events[i])
        /\ \E i \in Fetches(t) : trace[t].events[i].shape = "warning"
        /\ ~trace[t].bad
        => /\ outcome[t].result.status_code < 400
           /\ outcome[t].result.error = "WARNING: limit"
           /\ trace[t].expect \subseteq Keys(new_hosts)

\* the i-th request of a cycle failed: transport error, error status, 'ERROR:' body,
\* or a login page again after the login
Failed(tr, i) ==
    LET e == tr.events[i] IN
    \/ e.exc
    \/ e.error # ""
    \/ e.status_code >= 400
    \/ e.shape = "error"
    \/ e.shape = "html" /\ i > 1 /\ tr.events[i - 1].op = "login"

\* C4: a cycle in which a response had a transport error, an error status, a login
\* page after the login, or an 'ERROR:' body returns an error Result, never a success
\* Result, for the host table, the service table and the alert list
C4_ResponseErrorAborts ==
    \A t \in DOMAIN pc :
        Returned(t) /\ (\E i \in Fetches(t) : Failed(trace[t], i))
            => ~IsSuccess(outcome[t].result)

\* C5: a malformed alert of an alert list is skipped alone: the other alerts of the
\* list are in the mapping and the cycle returns a success Result
C5_MalformedAlertSkipped ==
    \A t \in DOMAIN pc :
        /\ TYPE = "alertmanager"
        /\ Returned(t)
        /\ \A i \in Fetches(t) : Usable(trace[t].events[i])
        /\ trace[t].bad
        => /\ IsSuccess(outcome[t].result)
           /\ trace[t].expect \subseteq Keys(new_hosts)

\* the cycle of thread t met a fault: an exception inside _get_status, or a request
\* that failed in transport
Faulted(t) ==
    \/ trace[t].raised # <<>>
    \/ \E i \in Fetches(t) : trace[t].events[i].exc \/ trace[t].events[i].error # ""

\* C6: no exception leaves _get_status of either adapter: after a transport failure or
\* an unexpected payload at any point the call returns a Result that carries an error
C6_NoFaultEscapes ==
    \A t \in DOMAIN pc :
        /\ pc[t] # "escaped"
        /\ outcome[t].kind # "raised"
        /\ Returned(t) /\ Faulted(t)
              => outcome[t].kind = "returned" /\ outcome[t].result.error # ""

\* C6, its case: an exception was raised inside _get_status, and the call returned
C6_FaultCaught ==
    \E t \in DOMAIN pc :
        Returned(t) /\ trace[t].raised # <<>> /\ outcome[t].result.error # ""

\* thread t is inside _get_status where it logs in, fetches or writes the mapping
Mutating(t) ==
    pc[t] \in {"init_HTTP", "init_login", "get_hosts", "url_login", "refetch", "host_rows",
               "get_services", "service_rows", "get_alerts", "alert_rows"}

\* C7: at no time are two cycles of one backend instance at their logins, cookie or
\* mapping mutations together
C7_NoOverlap == Cardinality({t \in DOMAIN pc : Mutating(t)}) <= 1

\* C8: a cycle writes only to the mapping under construction, so self.hosts is the
\* mapping the last hand-over published, and every reader got what that mapping holds
C8_ReadersSeePublished == hosts = published /\ observed.origin # "unpublished"

\* C8, its case: a reader ran while a cycle had part of a different mapping built
C8_ReadDuringBuild ==
    /\ observed.building
    /\ observed.origin = "published"
    /\ new_hosts # EmptyMap
    /\ new_hosts # hosts

\* C9: every submission to the tabular backend comes right after a token request,
\* carries the token of that request, and no token value goes out twice
C9_FreshToken ==
    TYPE = "Checkmk Multisite" =>
        \A i \in DOMAIN writes :
            writes[i].kind = "submit" =>
                /\ i > 1
                /\ writes[i - 1].kind = "transid"
                /\ writes[i - 1].transid = writes[i].transid
                /\ \A j \in 1..(i - 1) :
                      writes[j].kind = "submit" => writes[j].transid # writes[i].transid

\* C10: an acknowledge with N further services that ran through has sent N + 1
\* submissions, on either adapter
C10_BulkWrites ==
    ui.step = "idle" /\ ui.op = "set_acknowledge" /\ ui.error = ""
        => Cardinality({i \in DOMAIN writes :
                            writes[i].n = ui.n /\ writes[i].kind = "submit"})
             = ui.targets + 1

\* the submissions of the operation the user asked for last
Submits == {i \in DOMAIN writes : writes[i].n = ui.n /\ writes[i].kind = "submit"}

\* a step of a write operation: a request went out, or the operation started, went on,
\* raised or ended
WriteStep == ui' # ui \/ writes' # writes

\* C11: a step of a write operation, whether its request is done, refused or raises,
\* changes neither the published mapping nor the mapping under construction, also
\* while a cycle is running; and an operation sends no more submissions than it has
\* targets, so a refused one is not sent again
C11_WritesLeaveMappings ==
    /\ [][WriteStep => hosts' = hosts /\ new_hosts' = new_hosts]_vars
    /\ [](Cardinality(Submits) <= ui.targets + 1)

\* C11, its case: a submission was refused, the operation is still going on, and a
\* cycle has part of its mapping built
C11_RefusedDuringBuild ==
    /\ \E i \in Submits : writes[i].answer = "failed"
    /\ ui.step = "transid"
    /\ isChecking
    /\ new_hosts # EmptyMap
    /\ new_hosts # hosts

\* C12: the mapping a cycle builds from given raw responses, starting from an empty
\* mapping, is the same whenever the cycle runs: field for field, duration and
\* last_check included, for the alert list as for the two tables
C12_SameInputSameMapping ==
    [][/\ \A data \in AlertLists : AlertLoop(EmptyMap, data)' = AlertLoop(EmptyMap, data)
       /\ \A host_table \in HostTables, service_table \in ServiceTables :
             TableLoops(host_table, service_table)'
                = TableLoops(host_table, service_table)]_vars

\* the alerts whose severity label reads none, in whatever letter case
NoneFingerprints ==
    {AlertSamples[i].fingerprint :
        i \in {j \in 1..Len(AlertSamples) :
                  /\ "severity" \in DOMAIN AlertSamples[j].labels
                  /\ AlertSamples[j].labels.severity \in {"none", "None", "NONE"}}}

\* C13: no service of the mapping under construction or of the published mapping was
\* built from an alert whose labels.severity is none in any letter case
C13_NoneExcluded ==
    TYPE = "alertmanager" =>
        \A x \in ServicesOf(new_hosts) \cup ServicesOf(hosts) :
            x.fingerprint \notin NoneFingerprints /\ x.status # "NONE"

\* C13, its case: a cycle returned that met such an alert after it had normalized
\* another one
C13_NoneSkipped ==
    \E t \in DOMAIN pc :
        Returned(t) /\ trace[t].skipped # {} /\ new_hosts # EmptyMap

\* the hosts and the services of a mapping of the tabular adapter
Objects(m) == {m[h] : h \in DOMAIN m} \cup ServicesOf(m)

Digits == <<"0", "1", "2", "3", "4", "5", "6", "7", "8", "9">>

IsNumber(chars) ==
    chars # <<>> /\ \A i \in 1..Len(chars) : \E d \in 1..10 : Digits[d] = chars[i]

\* the integer a sequence of digits writes
RECURSIVE IntOf(_)
IntOf(chars) ==
    IF chars = <<>> THEN 0
    ELSE 10 * IntOf(SubSeq(chars, 1, Len(chars) - 1))
            + (CHOOSE d \in 1..10 : Digits[d] = chars[Len(chars)]) - 1

\* an attempt "a/b" of two integers
ValidAttempt(attempt) ==
    LET parts == Split(attempt, "/") IN
    Len(parts) = 2 /\ IsNumber(parts[1]) /\ IsNumber(parts[2])

\* C14: a host or a service of the tabular adapter whose attempt is a valid "a/b" is
\* hard when a equals b as integers, and soft otherwise
C14_HardIffEqual ==
    TYPE = "Checkmk Multisite" =>
        \A o \in Objects(new_hosts) \cup Objects(hosts) :
            ValidAttempt(o.attempt) =>
                LET parts == Split(o.attempt, "/") IN
                o.status_type = IF IntOf(parts[1]) = IntOf(parts[2]) THEN "hard" ELSE "soft"

\* C15: a row whose attempt is not "a/b" is rejected alone: the cycle that fetched it
\* returns, no exception leaves it, the row has no hard/soft state, and the records
\* of the other rows it fetched are in the mapping it returns with success
C15_MalformedAttemptAlone ==
    \A t \in DOMAIN pc :
        /\ pc[t] # "escaped"
        /\ /\ TYPE = "Checkmk Multisite"
           /\ Returned(t)
           /\ \A i \in Fetches(t) : trace[t].events[i].shape = "literal"
           /\ trace[t].attempts # {}
           => /\ IsSuccess(outcome[t].result)
              /\ trace[t].expect \subseteq Keys(new_hosts)
              /\ \A o \in Objects(new_hosts) : ~ValidAttempt(o.attempt) => o.status_type = ""

\* elapsed times around every change of form
ElapsedSamples ==
    {0, 5, 45, 59, 60, 125, 600, 3599, 3600, 3605, 3725, 86399, 86400, 86405, 90125, 180000}

TwoDigits(k) == IF k < 10 THEN "0" \o ToString(k) ELSE ToString(k)

\* the text required for n seconds: N days, H hours, MM minutes, SS seconds with
\* N*86400 + H*3600 + MM*60 + SS = n, MM and SS below 60, H below 24
Required(n) ==
    LET N == n \div 86400
        H == (n - N * 86400) \div 3600
        MM == (n - N * 86400 - H * 3600) \div 60
        SS == n - N * 86400 - H * 3600 - MM * 60
    IN IF n < 60 THEN TwoDigits(SS) \o "s"
       ELSE IF n < 3600 THEN TwoDigits(MM) \o "m " \o TwoDigits(SS) \o "s"
       ELSE IF n < 86400
       THEN ToString(H) \o "h " \o TwoDigits(MM) \o "m " \o TwoDigits(SS) \o "s"
       ELSE ToString(N) \o "d " \o ToString(H) \o "h " \o TwoDigits(MM) \o "m "
                \o TwoDigits(SS) \o "s"

\* the alert a service was built from
AlertOf(x) ==
    AlertSamples[CHOOSE i \in 1..Len(AlertSamples) : AlertSamples[i].fingerprint = x.fingerprint]

\* the times the clock has shown so far
ClockSoFar == {100000 + 60 * k : k \in 0..((now - 100000) \div 60)}

\* C16: _get_duration writes n >= 0 elapsed seconds as 'SSs', 'MMm SSs', 'Hh MMm SSs'
\* or 'Nd Hh MMm SSs' by the size of n, minutes and seconds on two digits; 45 is
\* '45s', 125 '02m 05s', 3725 '1h 02m 05s', 90125 '1d 1h 02m 05s'; and the duration and
\* last_check of every service of the mappings are such texts
C16_DurationFormat ==
    /\ \A n \in ElapsedSamples : GetDuration(now - n) = Required(n)
    /\ GetDuration(now - 45) = "45s"
    /\ GetDuration(now - 125) = "02m 05s"
    /\ GetDuration(now - 3725) = "1h 02m 05s"
    /\ GetDuration(now - 90125) = "1d 1h 02m 05s"
    /\ TYPE = "alertmanager" =>
          \A x \in ServicesOf(new_hosts) \cup ServicesOf(hosts) :
             /\ \E c \in ClockSoFar : x.duration = Required(c - AlertOf(x).startsAt)
             /\ \E c \in ClockSoFar : x.last_check = Required(c - AlertOf(x).updatedAt)

\* C16, its case: a published service carries the duration of an alert that started
\* 105 seconds before its cycle, and one under construction that of 3785 seconds
C16_DurationsWritten ==
    /\ \E x \in ServicesOf(hosts) : x.duration = "01m 45s"
    /\ \E x \in ServicesOf(new_hosts) : x.duration = "1h 03m 05s"

\* the first non-empty value the map has for the keys in the order given
RECURSIVE FirstNonEmpty(_, _, _)
FirstNonEmpty(map, keys, default) ==
    IF keys = <<>> THEN default
    ELSE IF Head(keys) \in DOMAIN map /\ map[Head(keys)] # "" THEN map[Head(keys)]
    ELSE FirstNonEmpty(map, Tail(keys), default)

\* C17: host, name and status information of every service of the alert adapter are
\* the first non-empty value of the labels (of the annotations) for the keys of the
\* priority list in their order, 'unknown', 'unknown' and '' when there is none; the
\* host without its port; labels {host: db1, instance: db1:9100} give host db1
C17_FirstNonEmptyLabel ==
    /\ StripPort(DetectFromLabels([host |-> "db1", instance |-> "db1:9100"],
                                  map_to_hostname, "unknown")) = "db1"
    /\ TYPE = "alertmanager" =>
          \A x \in ServicesOf(new_hosts) \cup ServicesOf(hosts) :
             /\ x.host = StripPort(FirstNonEmpty(x.labels, <<"instance", "host">>, "unknown"))
             /\ x.name = FirstNonEmpty(x.labels, <<"alertname">>, "unknown")
             /\ x.status_information
                   = FirstNonEmpty(AlertOf(x).annotations,
                                   <<"message", "summary", "description">>, "")

\* host h has a row in a host table the cycle of thread t fetched
InHostTable(t, h) == <<"host", h>> \in trace[t].expect \cup trace[t].attempts

\* the service row the loop of the services block of thread t takes in this step
ServiceRowTaken(t) ==
    /\ pc[t] = "service_rows"
    /\ frame[t].rows # <<>>
    /\ frame'[t].rows = Tail(frame[t].rows)
    /\ ServiceColumns \subseteq DOMAIN Zip(frame[t].header, Head(frame[t].rows))

\* C18: on the tabular adapter a host of the mapping under construction that has no
\* row in the host table of the cycle has status UP, and a service row the loop takes
\* is afterwards under a Host entry of its host name, created with status UP where the
\* mapping did not have that host
C18_HostOfServiceRow ==
    /\ [](TYPE = "Checkmk Multisite" =>
            \A t \in DOMAIN pc :
                pc[t] # "idle" =>
                    \A h \in DOMAIN new_hosts :
                        ~InHostTable(t, h) => new_hosts[h].status = "UP")
    /\ [][\A t \in DOMAIN pc :
            ServiceRowTaken(t) =>
                LET service == Zip(frame[t].header, Head(frame[t].rows))
                    h == service["host"]
                IN /\ h \in DOMAIN new_hosts'
                   /\ service["service_description"] \in DOMAIN new_hosts'[h].services
                   /\ h \notin DOMAIN new_hosts =>
                         new_hosts'[h].name = h /\ new_hosts'[h].status = "UP"]_vars

\* C18, its case: a cycle returned with success whose service table had a row of a
\* host that its host table did not have
C18_ServiceOfUnknownHost ==
    \E t \in DOMAIN pc :
        /\ TYPE = "Checkmk Multisite"
        /\ Returned(t) /\ IsSuccess(outcome[t].result)
        /\ \E k \in trace[t].expect :
              /\ k[1] = "service"
              /\ ~InHostTable(t, k[2])
              /\ k[2] \in DOMAIN new_hosts
              /\ DOMAIN new_hosts # {k[2]}

\* the keys under which mapping m holds the Service object x
HoldersOf(m, x) ==
    {k \in UNION {{h} \X DOMAIN m[h].services : h \in DOMAIN m} :
        m[k[1]].services[k[2]] = x}

\* every Service of mapping m is under one Host entry, whose key and name are the
\* service's host, at the key that is the service's name
NoOrphans(m) ==
    \A h \in DOMAIN m :
        \A n \in DOMAIN m[h].services :
            LET x == m[h].services[n]
            IN /\ HoldersOf(m, x) = {<<h, n>>}
               /\ x.host = h /\ m[h].name = h
               /\ x.name = n

\* C19: in every state the mapping under construction and the published mapping have
\* no orphan service: each Service is under exactly one Host entry, its host field is
\* the key and the name of that entry and its name is its key among the services
C19_NoOrphanServices == NoOrphans(new_hosts) /\ NoOrphans(hosts)

\* C19, its case: the mapping under construction holds services under two hosts, one
\* of them created for a service row, while the published mapping holds services too
C19_ServicesUnderTwoHosts ==
    /\ \E h1, h2 \in DOMAIN new_hosts :
          /\ h1 # h2
          /\ new_hosts[h1].services # EmptyMap /\ new_hosts[h2].services # EmptyMap
          /\ TYPE = "Checkmk Multisite" => \E t \in DOMAIN pc : ~InHostTable(t, h1)
    /\ ServicesOf(hosts) # {}

\* the cycle of thread t submitted the login form, the jar has no auth cookie, every
\* table request of the cycle was answered, and those after the login by the login
\* page again
LoginFailed(t) ==
    LET ev == trace[t].events IN
    /\ \E i \in 1..Len(ev) : ev[i].op = "login"
    /\ ~IsAuthInCookies
    /\ \A i \in Fetches(t) :
          /\ ~ev[i].exc /\ ev[i].error = "" /\ ev[i].status_code < 400
          /\ (\E j \in 1..(i - 1) : ev[j].op = "login") => ev[i].shape = "html"

\* C20: a cycle of the tabular adapter whose cookie login failed, by a transport error
\* or without an auth cookie, returns the empty Result with error 'Login failed' and
\* status code 401 and has added no host to the mapping under construction
C20_LoginFailedIs401 ==
    \A t \in DOMAIN pc :
        Returned(t) /\ LoginFailed(t)
            => /\ outcome[t].result = Result(EmptyBody, "Login failed", 401)
               /\ new_hosts = EmptyMap

\* the last table request of the cycle of thread t was answered by a page starting
\* with '<': _get_url handed '' to _get_status
EndedOnLoginPage(t) ==
    LET ev == trace[t].events IN
    /\ ev # <<>>
    /\ ev[Len(ev)].op = "fetch"
    /\ ~ev[Len(ev)].exc /\ ev[Len(ev)].error = "" /\ ev[Len(ev)].status_code < 400
    /\ ev[Len(ev)].shape = "html"

\* C21: when a cycle of the tabular adapter ends after a table request that was still
\* answered by the login page, refresh_authentication is set, also in the cycle in
\* which cookie authentication is detected
C21_LoginPageSetsRefresh ==
    \A t \in DOMAIN pc :
        TYPE = "Checkmk Multisite" /\ Returned(t) /\ EndedOnLoginPage(t)
            => refresh_authentication

\* C22: on the alert adapter, when a cycle returns with success and no alert of the
\* list was malformed, every alert of the list whose severity is not NONE is in the
\* mapping, whether it stands before or after an alert of severity NONE
C22_NoneFiltersItselfOnly ==
    \A t \in DOMAIN pc :
        /\ TYPE = "alertmanager"
        /\ Returned(t) /\ IsSuccess(outcome[t].result)
        /\ ~trace[t].bad
        => trace[t].expect \subseteq Keys(new_hosts)

\* the fields a host row sets, read from a Host entry
HostFields(x) ==
    <<x.name, x.status, x.last_check, x.duration, x.attempt, x.status_information,
      x.site, x.address, x.scheduled_downtime, x.acknowledged, x.notifications_disabled>>

\* the service row or host row the loops of thread t take in this step, as a dict
RowTaken(t) == Zip(frame[t].header, Head(frame[t].rows))

\* the loop of the hosts block of thread t takes a row with complete columns
HostRowTaken(t) ==
    /\ pc[t] = "host_rows"
    /\ frame[t].rows # <<>>
    /\ frame'[t].rows = Tail(frame[t].rows)
    /\ HostColumns \subseteq DOMAIN RowTaken(t)

\* the loop over the alerts of thread t takes a well-formed alert not of severity NONE
AlertTaken(t) ==
    /\ pc[t] = "alert_rows"
    /\ frame[t].rows # <<>>
    /\ frame'[t].rows = Tail(frame[t].rows)
    /\ ProcessAlert(Head(frame[t].rows)).kind = "data"

\* C23: a record whose key the mapping under construction already holds leaves the
\* entry in place, with the services it had, and sets its fields to the values of the
\* record: for host rows, service rows and alerts
C23_LaterRecordUpdates ==
    [][\A t \in DOMAIN pc :
          /\ HostRowTaken(t) =>
                LET h == RowTaken(t)["host"] IN
                /\ HostFields(new_hosts'[h]) = HostFields(HostObject(RowTaken(t)))
                /\ h \in DOMAIN new_hosts => new_hosts'[h].services = new_hosts[h].services
          /\ ServiceRowTaken(t) =>
                LET h == RowTaken(t)["host"]
                    name == RowTaken(t)["service_description"]
                IN [new_hosts'[h].services[name] EXCEPT !.status_type = ""]
                      = ServiceObject(RowTaken(t))
          /\ AlertTaken(t) =>
                LET service == AlertService(ProcessAlert(Head(frame[t].rows)).data) IN
                /\ new_hosts'[service.host].services[service.name] = service
                /\ service.host \in DOMAIN new_hosts =>
                      \A x \in DOMAIN new_hosts[service.host].services :
                          x \in DOMAIN new_hosts'[service.host].services]_vars

\* the requests of the cycle of thread t for the table at url
FetchesOf(t, url) == {i \in Fetches(t) : trace[t].events[i].url = url}

\* the i-th request of a cycle was answered by a table _get_status can go on with
Answered(tr, i) ==
    LET e == tr.events[i] IN
    ~e.exc /\ e.error = "" /\ e.status_code < 400 /\ e.shape \in {"literal", "warning"}

\* C24: in a cycle of the tabular adapter every request for the host table comes
\* before every request for the service table; the service table is requested only
\* when the loop over the host rows is through, and never when the last request for
\* the host table ended in a transport error, an error status, an 'ERROR:' body or
\* the login page
C24_HostsBeforeServices ==
    /\ [](\A t \in DOMAIN pc :
            /\ \A i \in FetchesOf(t, "hosts"), j \in FetchesOf(t, "services") : i < j
            /\ FetchesOf(t, "services") # {} =>
                  /\ FetchesOf(t, "hosts") # {}
                  /\ \A i \in FetchesOf(t, "hosts") :
                        (\A j \in FetchesOf(t, "hosts") : j <= i) => Answered(trace[t], i)
                  /\ pc[t] \notin {"init_HTTP", "init_login", "get_hosts", "host_rows",
                                   "hosts_except"})
    /\ [][\A t \in DOMAIN pc :
            /\ pc'[t] = "get_services" /\ pc[t] # "get_services"
                  => pc[t] = "host_rows" /\ frame[t].rows = <<>>
            /\ FetchesOf(t, "services")' # {} /\ FetchesOf(t, "services") = {}
                  => pc[t] = "get_services"]_vars

\* C24, its case: a cycle processed a row of the host table and then asked for the
\* service table
C24_ServicesRequestedAfterHostRow ==
    \E t \in DOMAIN pc :
        /\ FetchesOf(t, "services") # {}
        /\ <<"host", "h1">> \in Keys(new_hosts)
        /\ Cardinality(FetchesOf(t, "hosts")) = 2

\* v without its last piece when that is ":<digits>", v unchanged otherwise
StripTrailingPort(v) ==
    LET tokens == Tokenize(v) IN
    IF Len(tokens) > 1 /\ IsPort(tokens[Len(tokens)])
    THEN Join(SubSeq(tokens, 1, Len(tokens) - 1))
    ELSE v

\* C25: the host name of every service of the alert adapter is the value found in the
\* labels with a final ":<port>" removed, and that value unchanged when it does not
\* end with one: ":<digits>" elsewhere in the value stays
C25_OnlyTrailingPortStripped ==
    TYPE = "alertmanager" =>
        \A x \in ServicesOf(new_hosts) \cup ServicesOf(hosts) :
            x.host = StripTrailingPort(DetectFromLabels(x.labels, map_to_hostname, "unknown"))

\* the alert has a status field whose state is 'suppressed'
IsSuppressed(alert) ==
    /\ "status" \in DOMAIN alert
    /\ "state" \in DOMAIN alert.status
    /\ alert.status.state = "suppressed"

\* C26: every service of the alert adapter, in the mapping under construction and in
\* the published one, has scheduled_downtime and acknowledged both true when the
\* state of its alert is 'suppressed' and both false for any other state and for an
\* alert without a status field
C26_SuppressedSetsBothFlags ==
    TYPE = "alertmanager" =>
        \A x \in ServicesOf(new_hosts) \cup ServicesOf(hosts) :
            /\ x.scheduled_downtime = x.acknowledged
            /\ x.acknowledged = IsSuppressed(AlertOf(x))

\* C26, its case: the mapping under construction holds the service of a suppressed
\* alert and the service of an alert that has no status field
C26_SuppressedAndStatusless ==
    /\ TYPE = "alertmanager"
    /\ \E x, y \in ServicesOf(new_hosts) :
          /\ IsSuppressed(AlertOf(x)) /\ x.acknowledged
          /\ "status" \notin DOMAIN AlertOf(y) /\ ~y.scheduled_downtime

\* C27: every request for the host table is sent without the filter of the
\* unreachable hosts, and a request for the service table is sent with it exactly when
\* conf.filter_services_on_unreachable_hosts was set when the cycle read it
C27_FilterOnServicesOnly ==
    \A t \in DOMAIN pc :
        /\ \A i \in FetchesOf(t, "hosts") :
              /\ trace[t].events[i].params \cap FilterParams = {}
              /\ BaseParams \subseteq trace[t].events[i].params
        /\ \A i \in FetchesOf(t, "services") :
              /\ trace[t].events[i].params
                    = IF frame[t].conf_filter THEN BaseParams \cup FilterParams
                      ELSE BaseParams

\* C27, its case: with the flag set a cycle has asked for the host table and then for
\* the service table
C27_FilteredServiceRequest ==
    \E t \in DOMAIN pc :
        /\ frame[t].conf_filter
        /\ FetchesOf(t, "hosts") # {}
        /\ \E i \in FetchesOf(t, "services") : FilterParams \subseteq trace[t].events[i].params

\* _get_status of thread t has returned a Result with an error
ReturnedError(t) == Returned(t) /\ ~IsSuccess(outcome[t].result)

\* the next cycle request of thread t is accepted
Accepts(t) == pc[t] = "idle" /\ ~isChecking

LoginSubmitted(t) ==
    /\ Len(trace'[t].events) = Len(trace[t].events) + 1
    /\ trace'[t].events[Len(trace'[t].events)].op = "login"

\* C29: while refresh_authentication is set and a session exists no cycle is at a
\* login of init_HTTP or of _get_url and no step submits the login form, over any
\* number of cycles; and CookieAuth, once set, stays set
C29_NoLoginWhileRefreshPending ==
    /\ [](refresh_authentication /\ session # "None" =>
            \A t \in DOMAIN pc : pc[t] \notin {"init_login", "url_login"})
    /\ [][(\E t \in DOMAIN pc : LoginSubmitted(t)) =>
             ~(refresh_authentication /\ session # "None")]_vars
    /\ [][CookieAuth => CookieAuth']_vars

\* C29, its case: a cycle after the one that set refresh_authentication is past
\* init_HTTP, cookie authentication known and the jar empty, and a table request of it
\* was answered by the login page
C29_LaterCycleAfterRefresh ==
    \E t \in DOMAIN pc :
        /\ refresh_authentication /\ CookieAuth /\ session # "None" /\ cookies = {}
        /\ published # EmptyMap
        /\ Returned(t) /\ EndedOnLoginPage(t)
        /\ Cardinality(Fetches(t)) = 1

\* C30: an acknowledge on the alert adapter for an alert of the published mapping,
\* given no expiry time, ends without an error and has sent exactly one silence, whose
\* endsAt is a time
C30_AcknowledgeWithoutExpiry ==
    [][\A pick \in Picks :
          \A all_services \in Lists(Services(pick[1]), MaxTargets) :
             AM_set_acknowledge(pick[1], pick[2], all_services, "None")
                /\ pick[2] \in Services(pick[1])
             => /\ ui'.error = ""
                /\ Len(writes') = Len(writes) + 1
                /\ writes'[Len(writes')].url = "silences"
                /\ writes'[Len(writes')].data.endsAt # "TypeError"]_vars

====
